---------------------------- MODULE Spec2Model ----------------------------
(***************************************************************************)
(* Model of the hook plugins of everything-opencode and of the lifecycle   *)
(* dispatch that runs them.  The plugins (their rule sets, their handlers  *)
(* and their closure state) are translated from the TypeScript sources;    *)
(* the dispatcher and the host pipeline that call them are not part of the *)
(* sources and are modelled from the design specification.                 *)
(*                                                                         *)
(* Text is a sequence of one-character strings, so that the regular        *)
(* expressions of the rule sets are matched character by character.        *)
(* An absent argument (undefined) and the empty string are both the empty  *)
(* sequence: the handlers only ever test such arguments for truthiness.    *)
(***************************************************************************)
EXTENDS Integers, Sequences, FiniteSets, TLC

(***************************************************************************)
(* Characters                                                              *)
(***************************************************************************)
Lower == {"a","b","c","d","e","f","g","h","i","j","k","l","m",
          "n","o","p","q","r","s","t","u","v","w","x","y","z"}

Upper == {"A","B","C","D","E","F","G","H","I","J","K","L","M",
          "N","O","P","Q","R","S","T","U","V","W","X","Y","Z"}

Digit == {"0","1","2","3","4","5","6","7","8","9"}

Space == {" ", "\t", "\n", "\r"}

Punct == {"/", "~", "*", ".", "-", "_", ">", "|", "=", ";", ":", "$", "{",
          "}", "\"", "'", ",", "(", ")", "&", "+", "#", "@",
          "!", "?", "<", "[", "]", "%", "^"}

Alphabet == Lower \cup Upper \cup Digit \cup Space \cup Punct

LowerOf(c) ==
    CASE c = "A" -> "a" [] c = "B" -> "b" [] c = "C" -> "c" [] c = "D" -> "d"
      [] c = "E" -> "e" [] c = "F" -> "f" [] c = "G" -> "g" [] c = "H" -> "h"
      [] c = "I" -> "i" [] c = "J" -> "j" [] c = "K" -> "k" [] c = "L" -> "l"
      [] c = "M" -> "m" [] c = "N" -> "n" [] c = "O" -> "o" [] c = "P" -> "p"
      [] c = "Q" -> "q" [] c = "R" -> "r" [] c = "S" -> "s" [] c = "T" -> "t"
      [] c = "U" -> "u" [] c = "V" -> "v" [] c = "W" -> "w" [] c = "X" -> "x"
      [] c = "Y" -> "y" [] c = "Z" -> "z" [] OTHER -> c

ToLower(s) == [k \in 1..Len(s) |-> LowerOf(s[k])]

(***************************************************************************)
(* Regular expressions.  A node is a record [t, s, rs, n]:                 *)
(*   t = "set"   one character of the set s                                *)
(*   t = "seq"   the nodes of rs one after the other                       *)
(*   t = "alt"   one of the nodes of rs                                    *)
(*   t = "star"  rs[1] zero or more times                                  *)
(*   t = "rep"   rs[1] exactly n times                                     *)
(*   t = "eol"   the end of the input ($ without the m flag)               *)
(***************************************************************************)
Set(S) == [t |-> "set", s |-> S, rs |-> <<>>, n |-> 0]

Ch(c) == Set({c})

Cat(rs) == [t |-> "seq", s |-> {}, rs |-> rs, n |-> 0]

Alt(rs) == [t |-> "alt", s |-> {}, rs |-> rs, n |-> 0]

Star(r) == [t |-> "star", s |-> {}, rs |-> <<r>>, n |-> 0]

Rep(r, k) == [t |-> "rep", s |-> {}, rs |-> <<r>>, n |-> k]

Eol == [t |-> "eol", s |-> {}, rs |-> <<>>, n |-> 0]

Empty == Cat(<<>>)

Plus(r) == Cat(<<r, Star(r)>>)

Opt(r) == Alt(<<r, Empty>>)

AtLeast(r, k) == Cat(<<Rep(r, k), Star(r)>>)

\* a literal: the characters of w one after the other
Lit(w) == Cat([k \in 1..Len(w) |-> Ch(w[k])])

Dot == Set(Alphabet \ {"\n", "\r"})

WordCh == Set(Lower \cup Upper \cup Digit \cup {"_"})

Sp == Set(Space)

RECURSIVE Ends(_, _, _)
RECURSIVE EndsSeq(_, _, _, _)
RECURSIVE EndsStar(_, _, _, _)
RECURSIVE EndsRep(_, _, _, _)

\* the positions at which a match of node re that starts at position i of s
\* can end (the position of the first character after the match)
Ends(re, s, i) ==
    CASE re.t = "set" -> IF i <= Len(s) /\ s[i] \in re.s THEN {i + 1} ELSE {}
      [] re.t = "seq" -> EndsSeq(re.rs, 1, s, {i})
      [] re.t = "alt" -> UNION {Ends(re.rs[k], s, i) : k \in 1..Len(re.rs)}
      [] re.t = "star" -> EndsStar(re.rs[1], s, {}, {i})
      [] re.t = "rep" -> EndsRep(re.rs[1], re.n, s, {i})
      [] re.t = "eol" -> IF i = Len(s) + 1 THEN {i} ELSE {}

EndsSeq(rs, k, s, from) ==
    IF k > Len(rs) \/ from = {} THEN from
    ELSE EndsSeq(rs, k + 1, s, UNION {Ends(rs[k], s, i) : i \in from})

EndsStar(r, s, done, frontier) ==
    IF frontier = {} THEN done
    ELSE LET seen == done \cup frontier
         IN  EndsStar(r, s, seen, UNION {Ends(r, s, i) : i \in frontier} \ seen)

EndsRep(r, k, s, from) ==
    IF k = 0 \/ from = {} THEN from
    ELSE EndsRep(r, k - 1, s, UNION {Ends(r, s, i) : i \in from})

\* RegExp.prototype.test of a pattern without the g flag: a match may start
\* anywhere; with the i flag letters are compared regardless of case (the
\* patterns with the flag are written in lower case)
Test(re, s) == \E i \in 1..(Len(s) + 1) : Ends(re, s, i) # {}

TestI(re, s) == Test(re, ToLower(s))

\* a pattern with its flags
Rx(re) == [re |-> re, i |-> FALSE]

RxI(re) == [re |-> re, i |-> TRUE]

PatternTest(p, s) == IF p.i THEN TestI(p.re, s) ELSE Test(p.re, s)

(***************************************************************************)
(* Rule sets of the dangerous-command blocker.                             *)
(***************************************************************************)
DANGEROUS_COMMANDS == <<
    Rx(Cat(<<Lit(<<"r","m">>), Plus(Sp), Lit(<<"-","r","f">>), Plus(Sp), Set({"/", "~"})>>)),
    Rx(Cat(<<Lit(<<"r","m">>), Plus(Sp), Lit(<<"-","r","f">>), Plus(Sp), Ch("*")>>)),
    Rx(Cat(<<Lit(<<"r","m">>), Plus(Sp), Lit(<<"-","r","f">>), Plus(Sp), Lit(<<".",".">>)>>)),
    Rx(Cat(<<Ch(">"), Star(Sp), Lit(<<"/","d","e","v","/","s","d">>), Set(Lower)>>)),
    Rx(Lit(<<"m","k","f","s",".">>)),
    Rx(Cat(<<Lit(<<"d","d">>), Plus(Sp), Lit(<<"i","f","=">>), Star(Dot), Lit(<<"o","f","=","/","d","e","v">>)>>)),
    Rx(Cat(<<Lit(<<"c","h","m","o","d">>), Plus(Sp), Lit(<<"-","R">>), Plus(Sp), Lit(<<"7","7","7">>)>>)),
    Rx(Cat(<<Lit(<<"c","u","r","l">>), Star(Dot), Ch("|"), Star(Sp), Opt(Lit(<<"b","a">>)), Lit(<<"s","h">>)>>)),
    Rx(Cat(<<Lit(<<"w","g","e","t">>), Star(Dot), Ch("|"), Star(Sp), Opt(Lit(<<"b","a">>)), Lit(<<"s","h">>)>>)),
    Rx(Cat(<<Lit(<<"g","i","t">>), Plus(Sp), Lit(<<"p","u","s","h">>), Star(Dot), Lit(<<"-","-","f","o","r","c","e">>), Plus(Sp),
             Opt(Cat(<<Lit(<<"o","r","i","g","i","n">>), Plus(Sp)>>)),
             Alt(<<Lit(<<"m","a","i","n">>), Lit(<<"m","a","s","t","e","r">>)>>)>>)),
    Rx(Cat(<<Lit(<<"g","i","t">>), Plus(Sp), Lit(<<"r","e","s","e","t">>), Plus(Sp), Lit(<<"-","-","h","a","r","d">>), Plus(Sp),
             Lit(<<"o","r","i","g","i","n">>)>>)),
    RxI(Cat(<<Lit(<<"d","r","o","p">>), Plus(Sp), Lit(<<"d","a","t","a","b","a","s","e">>)>>)),
    RxI(Cat(<<Lit(<<"d","r","o","p">>), Plus(Sp), Lit(<<"t","a","b","l","e">>)>>)),
    RxI(Cat(<<Lit(<<"t","r","u","n","c","a","t","e">>), Plus(Sp), Lit(<<"t","a","b","l","e">>)>>)),
    RxI(Cat(<<Lit(<<"d","e","l","e","t","e">>), Plus(Sp), Lit(<<"f","r","o","m">>), Plus(Sp), Plus(WordCh), Star(Sp),
              Opt(Ch(";")), Star(Sp), Eol>>)) >>

WARNINGS == <<
    [pattern |-> Rx(Cat(<<Lit(<<"n","p","m">>), Plus(Sp), Lit(<<"p","u","b","l","i","s","h">>)>>)),
     message |-> "Publishing to npm registry"],
    [pattern |-> Rx(Cat(<<Lit(<<"d","o","c","k","e","r">>), Plus(Sp), Lit(<<"p","u","s","h">>)>>)),
     message |-> "Pushing Docker image"],
    [pattern |-> Rx(Cat(<<Lit(<<"k","u","b","e","c","t","l">>), Plus(Sp), Lit(<<"d","e","l","e","t","e">>)>>)),
     message |-> "Deleting Kubernetes resources"],
    [pattern |-> Rx(Cat(<<Lit(<<"t","e","r","r","a","f","o","r","m">>), Plus(Sp), Lit(<<"d","e","s","t","r","o","y">>)>>)),
     message |-> "Destroying Terraform infrastructure"],
    [pattern |-> Rx(Cat(<<Lit(<<"a","w","s">>), Plus(Sp), Star(Dot), Lit(<<"d","e","l","e","t","e">>)>>)),
     message |-> "Deleting AWS resources"] >>

(***************************************************************************)
(* Rule sets of the env-protection plugin.                                 *)
(***************************************************************************)
SENSITIVE_PATTERNS == <<
    Rx(Cat(<<Lit(<<".","e","n","v">>), Eol>>)),
    Rx(Cat(<<Lit(<<".","e","n","v",".">>), Plus(Dot), Eol>>)),
    Rx(Cat(<<Lit(<<"c","r","e","d","e","n","t","i","a","l","s",".","j","s","o","n">>), Eol>>)),
    Rx(Cat(<<Lit(<<"s","e","c","r","e","t","s",".","j","s","o","n">>), Eol>>)),
    Rx(Cat(<<Lit(<<".","p","e","m">>), Eol>>)),
    Rx(Cat(<<Lit(<<".","k","e","y">>), Eol>>)),
    Rx(Lit(<<"i","d","_","r","s","a">>)),
    Rx(Lit(<<"i","d","_","e","d","2","5","5","1","9">>)),
    Rx(Cat(<<Lit(<<".","p","1","2">>), Eol>>)),
    Rx(Cat(<<Lit(<<".","p","f","x">>), Eol>>)),
    Rx(Lit(<<"k","e","y","s","t","o","r","e">>)) >>

ALLOWED_FILES == <<<<".","e","n","v",".","e","x","a","m","p","l","e">>, <<".","e","n","v",".","t","e","m","p","l","a","t","e">>, <<".","e","n","v",".","s","a","m","p","l","e">>>>

Quote == Set({"\"", "'"})

NotQuote == Set(Alphabet \ {"\"", "'"})

AlNum == Set(Lower \cup Upper \cup Digit)

secretPatterns == <<
    RxI(Cat(<<Lit(<<"a","p","i">>), Opt(Set({"_", "-"})), Lit(<<"k","e","y">>), Star(Sp), Set({":", "="}),
              Star(Sp), Quote, AtLeast(AlNum, 20), Quote>>)),
    RxI(Cat(<<Lit(<<"s","e","c","r","e","t">>), Opt(Set({"_", "-"})), Lit(<<"k","e","y">>), Star(Sp), Set({":", "="}),
              Star(Sp), Quote, AtLeast(AlNum, 20), Quote>>)),
    RxI(Cat(<<Lit(<<"p","a","s","s","w","o","r","d">>), Star(Sp), Set({":", "="}), Star(Sp), Quote,
              AtLeast(NotQuote, 8), Quote>>)),
    Rx(Cat(<<Lit(<<"A","K","I","A">>), Rep(Set(Digit \cup Upper), 16)>>)),
    Rx(Cat(<<Lit(<<"-","-","-","-","-","B","E","G","I","N"," ">>),
             Opt(Alt(<<Lit(<<"R","S","A"," ">>), Lit(<<"D","S","A"," ">>), Lit(<<"E","C"," ">>)>>)),
             Lit(<<"P","R","I","V","A","T","E"," ","K","E","Y","-","-","-","-","-">>)>>)) >>

VarName == Set(Lower \cup {"_"})

dangerousCommands == <<
    Rx(Cat(<<Lit(<<"c","a","t">>), Plus(Sp), Star(Dot), Lit(<<".","e","n","v">>)>>)),
    RxI(Cat(<<Lit(<<"e","c","h","o">>), Plus(Sp), Star(Dot), Ch("$"), Opt(Ch("{")), Star(VarName),
              Lit(<<"k","e","y">>)>>)),
    RxI(Cat(<<Lit(<<"e","c","h","o">>), Plus(Sp), Star(Dot), Ch("$"), Opt(Ch("{")), Star(VarName),
              Lit(<<"s","e","c","r","e","t">>)>>)),
    RxI(Cat(<<Lit(<<"e","c","h","o">>), Plus(Sp), Star(Dot), Ch("$"), Opt(Ch("{")), Star(VarName),
              Lit(<<"p","a","s","s","w","o","r","d">>)>>)),
    Rx(Lit(<<"p","r","i","n","t","e","n","v">>)),
    Rx(Cat(<<Lit(<<"e","x","p","o","r","t">>), Plus(Sp), Star(Dot), Ch("="), Star(Dot), Quote,
             AtLeast(NotQuote, 20), Quote>>)) >>

(***************************************************************************)
(* Rule of the pre-commit check.                                           *)
(***************************************************************************)
GIT_COMMIT_PATTERN == Rx(Cat(<<Lit(<<"g","i","t">>), Plus(Sp), Lit(<<"c","o","m","m","i","t">>)>>))


(***************************************************************************)
(* Patterns of the console-log warning.  CONSOLE_PATTERNS carry the g      *)
(* flag: each keeps a lastIndex between its tests.                         *)
(***************************************************************************)
CONSOLE_PATTERNS == <<
    Rx(Lit(<<"c","o","n","s","o","l","e",".","l","o","g","(">>)),
    Rx(Lit(<<"c","o","n","s","o","l","e",".","d","e","b","u","g","(">>)),
    Rx(Lit(<<"c","o","n","s","o","l","e",".","i","n","f","o","(">>)) >>

ALLOWED_PATTERNS == <<
    Rx(Lit(<<"c","o","n","s","o","l","e",".","e","r","r","o","r","(">>)),
    Rx(Lit(<<"c","o","n","s","o","l","e",".","w","a","r","n","(">>)),
    Rx(Lit(<<"c","o","n","s","o","l","e",".","t","i","m","e">>)),
    Rx(Lit(<<"c","o","n","s","o","l","e",".","t","a","b","l","e","(">>)) >>
(***************************************************************************)
(* Values shared by the handlers.                                          *)
(***************************************************************************)
Min(a, b) == IF a < b THEN a ELSE b

Max(S) == CHOOSE m \in S : \A k \in S : k <= m

\* String.prototype.slice(a, b) for 0 <= a <= b
Slice(s, a, b) == SubSeq(s, a + 1, Min(b, Len(s)))

\* String.prototype.includes / a literal search
Includes(s, w) == Test(Lit(w), s)

\* Array.prototype.includes on an array of strings
ArrayIncludes(arr, v) == \E k \in 1..Len(arr) : arr[k] = v

\* the index of the first pattern of rs that matches s, 0 when none does:
\* the loops "for (const pattern of rs) if (pattern.test(s)) ..." and
\* Array.prototype.some stop at the first match
FirstMatch(rs, s) ==
    LET hit == {k \in 1..Len(rs) : PatternTest(rs[k], s)}
    IN  IF hit = {} THEN 0 ELSE CHOOSE k \in hit : \A j \in hit : k <= j

\* path.basename (POSIX): trailing slashes dropped, then what follows the
\* last slash
RECURSIVE StripSlashes(_)
StripSlashes(p) ==
    IF Len(p) > 0 /\ p[Len(p)] = "/" THEN StripSlashes(SubSeq(p, 1, Len(p) - 1))
    ELSE p

basename(p) ==
    LET q == StripSlashes(p)
        sl == {k \in 1..Len(q) : q[k] = "/"}
    IN  IF sl = {} THEN q ELSE SubSeq(q, Max(sl) + 1, Len(q))

\* what a handler call produces: it returns (always undefined: no handler of
\* the plugins returns a value), or it throws an error with a name and a
\* message; warned lists the rule messages written with console.warn
Returned == [kind |-> "return", name |-> "", message |-> <<>>, warned |-> <<>>]

Warned(ws) == [kind |-> "return", name |-> "", message |-> <<>>, warned |-> ws]

\* throw new Error(message)
Thrown(msg) == [kind |-> "throw", name |-> "Error", message |-> msg, warned |-> <<>>]

\* a property read on undefined
ThrownTypeError ==
    [kind |-> "throw", name |-> "TypeError",
     message |-> <<"C","a","n","n","o","t"," ","r","e","a","d"," ","p","r","o","p","e","r","t","i","e","s"," ","o","f"," ","u","n","d","e","f","i","n","e","d">>, warned |-> <<>>]

(***************************************************************************)
(* dangerous-command-blocker                                               *)
(***************************************************************************)
QuoteLen == 50

\* mutant: the quoted part cut where the warning's is (slice(0, 80))
DangerousMessageLong(cmd) ==
    <<"D","a","n","g","e","r","o","u","s"," ","c","o","m","m","a","n","d"," ","b","l","o","c","k","e","d",":"," ","\"">> \o Slice(cmd, 0, 80) \o
    <<".",".",".","\"","\n","T","h","i","s"," ","c","o","m","m","a","n","d"," ","c","o","u","l","d"," ","c","a","u","s","e"," ","i","r","r","e","v","e","r","s","i","b","l","e"," ","d","a","m","a","g","e",".">>

DangerousMessage(cmd) ==
    <<"D","a","n","g","e","r","o","u","s"," ","c","o","m","m","a","n","d"," ","b","l","o","c","k","e","d",":"," ","\"">> \o Slice(cmd, 0, QuoteLen) \o
    <<".",".",".","\"","\n","T","h","i","s"," ","c","o","m","m","a","n","d"," ","c","o","u","l","d"," ","c","a","u","s","e"," ","i","r","r","e","v","e","r","s","i","b","l","e"," ","d","a","m","a","g","e",".">>

\* the messages of the warn rules that match, in declaration order
RECURSIVE WarningsFor(_, _)
WarningsFor(k, cmd) ==
    IF k > Len(WARNINGS) THEN <<>>
    ELSE (IF PatternTest(WARNINGS[k].pattern, cmd) THEN <<WARNINGS[k].message>> ELSE <<>>)
         \o WarningsFor(k + 1, cmd)

\* mutant: a command that matches a warning rule is refused like a dangerous
\* one
DangerousCommandBlockerStrict(tool, args) ==
    IF tool # "bash" THEN Returned
    ELSE IF args.command = <<>> THEN Returned
    ELSE IF FirstMatch(DANGEROUS_COMMANDS, args.command) # 0
            \/ WarningsFor(1, args.command) # <<>>
         THEN Thrown(DangerousMessage(args.command))
    ELSE Returned

\* mutant: the i flag of the SQL rules forgotten
DangerousCommandBlockerCaseSensitive(tool, args) ==
    IF tool # "bash" THEN Returned
    ELSE IF args.command = <<>> THEN Returned
    ELSE IF \E k \in 1..Len(DANGEROUS_COMMANDS) :
                Test(DANGEROUS_COMMANDS[k].re, args.command)
         THEN Thrown(DangerousMessage(args.command))
    ELSE Warned(WarningsFor(1, args.command))

DangerousCommandBlocker(tool, args) ==
    IF tool # "bash" THEN Returned
    ELSE IF args.command = <<>> THEN Returned
    ELSE IF FirstMatch(DANGEROUS_COMMANDS, args.command) # 0
         THEN Thrown(DangerousMessage(args.command))
    ELSE Warned(WarningsFor(1, args.command))

(***************************************************************************)
(* env-protection                                                          *)
(***************************************************************************)
isSensitiveFile(filePath) ==
    IF ArrayIncludes(ALLOWED_FILES, basename(filePath)) THEN FALSE
    ELSE FirstMatch(SENSITIVE_PATTERNS, basename(filePath)) # 0

AccessDeniedMessage(filePath) ==
    <<"A","c","c","e","s","s"," ","d","e","n","i","e","d",":"," ","\"">> \o basename(filePath) \o
    <<"\""," ","c","o","n","t","a","i","n","s"," ","s","e","n","s","i","t","i","v","e"," ","d","a","t","a",".","\n","I","f"," ","y","o","u"," ","n","e","e","d"," ","t","o"," ","r","e","f","e","r","e","n","c","e"," ","e","n","v","i","r","o","n","m","e","n","t"," ","v","a","r","i","a","b","l","e","s",","," ","u","s","e"," ",".","e","n","v",".","e","x","a","m","p","l","e"," ","a","s"," ","a"," ","t","e","m","p","l","a","t","e",".">>

WriteDeniedMessage(filePath) ==
    <<"W","r","i","t","e"," ","d","e","n","i","e","d",":"," ","C","a","n","n","o","t"," ","m","o","d","i","f","y"," ","s","e","n","s","i","t","i","v","e"," ","f","i","l","e"," ","\"">> \o basename(filePath) \o
    <<"\"",".","\n","M","a","n","u","a","l","l","y"," ","e","d","i","t"," ","t","h","i","s"," ","f","i","l","e"," ","o","r"," ","u","s","e"," ",".","e","n","v",".","e","x","a","m","p","l","e"," ","f","o","r"," ","t","e","m","p","l","a","t","e","s",".">>

SecretDetectedMessage ==
    <<"S","e","c","r","e","t"," ","d","e","t","e","c","t","e","d",":"," ","C","o","n","t","e","n","t"," ","a","p","p","e","a","r","s"," ","t","o"," ","c","o","n","t","a","i","n"," ","h","a","r","d","c","o","d","e","d"," ","c","r","e","d","e","n","t","i","a","l","s",".","\n","P","l","e","a","s","e"," ","u","s","e"," ","e","n","v","i","r","o","n","m","e","n","t"," ","v","a","r","i","a","b","l","e","s"," ","i","n","s","t","e","a","d"," ","o","f"," ","h","a","r","d","c","o","d","i","n","g"," ","s","e","c","r","e","t","s",".">>

CommandBlockedMessage ==
    <<"C","o","m","m","a","n","d"," ","b","l","o","c","k","e","d",":"," ","T","h","i","s"," ","c","o","m","m","a","n","d"," ","m","a","y"," ","e","x","p","o","s","e"," ","s","e","n","s","i","t","i","v","e"," ","d","a","t","a",".","\n","A","v","o","i","d"," ","p","r","i","n","t","i","n","g"," ","o","r"," ","e","c","h","o","i","n","g"," ","e","n","v","i","r","o","n","m","e","n","t"," ","v","a","r","i","a","b","l","e","s"," ","w","i","t","h"," ","s","e","c","r","e","t","s",".">>

\* the first "tool.execute.before" property of the plugin's object literal
EnvFileGuard(tool, args) ==
    IF tool = "read" /\ args.filePath # <<>> /\ isSensitiveFile(args.filePath)
        THEN Thrown(AccessDeniedMessage(args.filePath))
    ELSE IF tool \in {"write", "edit"} /\ args.filePath # <<>>
            /\ isSensitiveFile(args.filePath)
        THEN Thrown(WriteDeniedMessage(args.filePath))
    ELSE IF tool \in {"write", "edit"} /\ args.content # <<>>
            /\ FirstMatch(secretPatterns, args.content) # 0
        THEN Thrown(SecretDetectedMessage)
    ELSE Returned

\* the second "tool.execute.before" property of the same object literal
EnvBashGuard(tool, args) ==
    IF tool = "bash" /\ args.command # <<>>
       /\ FirstMatch(dangerousCommands, args.command) # 0
        THEN Thrown(CommandBlockedMessage)
    ELSE Returned

(***************************************************************************)
(* pre-commit-check.  The lint, test and git-log commands it shells out to *)
(* run inside try/catch and only decide what is written to the console.    *)
(***************************************************************************)
\* the handlers go past their three guards
PreCommitApplies(tool, args) ==
    /\ tool = "bash"
    /\ args.command # <<>>
    /\ PatternTest(GIT_COMMIT_PATTERN, args.command)

\* the commands "tool.execute.before" starts, in order, with the way each
\* ends: runs.lint and runs.test are "exit0", "nonzero" (the command is
\* settled with an exit code that is not 0) or "nostart" (the command is
\* rejected, which leaves the try); the test command is started only once
\* the lint command has settled
PreCommitBeforeCommands(tool, args, runs) ==
    IF ~PreCommitApplies(tool, args) THEN <<>>
    ELSE IF runs.lint = "nostart" THEN <<[cmd |-> "npm run lint", status |-> runs.lint]>>
    ELSE <<[cmd |-> "npm run lint", status |-> runs.lint],
           [cmd |-> "npm test", status |-> runs.test]>>

\* mutant: without the try/catch
PreCommitBeforeUncaught(tool, args, runs) ==
    IF ~PreCommitApplies(tool, args) THEN Returned
    ELSE IF runs.lint = "nostart" \/ runs.test = "nostart"
         THEN [kind |-> "throw", name |-> "ShellError", message |-> <<>>, warned |-> <<>>]
    ELSE Returned

PreCommitBefore(tool, args, runs) ==
    IF tool # "bash" THEN Returned
    ELSE IF args.command = <<>> THEN Returned
    ELSE IF ~PatternTest(GIT_COMMIT_PATTERN, args.command) THEN Returned
    ELSE IF runs.lint = "nostart" THEN Returned
    ELSE Warned((IF runs.lint = "nonzero"
                 THEN <<"Lint errors detected. Consider fixing before commit.">>
                 ELSE <<>>)
                \o (IF runs.test = "nonzero"
                    THEN <<"Test failures detected. Consider fixing before commit.">>
                    ELSE <<>>))

\* the command "tool.execute.after" starts, with the way it ends
PreCommitAfterCommands(tool, args, result, run) ==
    IF PreCommitApplies(tool, args) /\ result.defined /\ result.exitCode = 0
    THEN <<[cmd |-> "git log", status |-> run]>>
    ELSE <<>>

\* the second line written is the stdout of git log
PreCommitAfter(tool, args, result, run) ==
    IF tool # "bash" THEN Returned
    ELSE IF args.command = <<>> THEN Returned
    ELSE IF ~PatternTest(GIT_COMMIT_PATTERN, args.command) THEN Returned
    ELSE IF ~result.defined THEN ThrownTypeError
    ELSE IF result.exitCode = 0
         THEN Warned(<<"Commit successful">>
                     \o (IF run = "nostart" THEN <<>> ELSE <<"   %h %s">>))
    ELSE Returned

(***************************************************************************)
(* session-summary: the plugin closure holds one stats value, null (live   *)
(* FALSE) until a session.create.  toolsUsed is the Map tool -> count, a   *)
(* tool without an entry having count 0.                                   *)
(***************************************************************************)
ToolNames == {"bash", "read", "write", "edit"}

NullStats ==
    [live |-> FALSE, filesCreated |-> <<>>, filesEdited |-> <<>>,
     toolsUsed |-> [t \in ToolNames |-> 0]]

\* mutant: a record that exists is kept
SummarySessionCreateKeep(st) ==
    IF st.live THEN st
    ELSE [live |-> TRUE, filesCreated |-> <<>>, filesEdited |-> <<>>,
          toolsUsed |-> [t \in ToolNames |-> 0]]

SummarySessionCreate(st) ==
    [live |-> TRUE, filesCreated |-> <<>>, filesEdited |-> <<>>,
     toolsUsed |-> [t \in ToolNames |-> 0]]

\* mutant: a path already listed is not listed again, as in file.edit
SummaryFileCreateOnce(st, filePath) ==
    IF st.live /\ ~ArrayIncludes(st.filesCreated, filePath)
    THEN [st EXCEPT !.filesCreated = Append(@, filePath)]
    ELSE st

\* mutant: a record is made for the file when there is none
SummaryFileCreateAlways(st, filePath) ==
    IF st.live THEN [st EXCEPT !.filesCreated = Append(@, filePath)]
    ELSE [live |-> TRUE, filesCreated |-> <<filePath>>, filesEdited |-> <<>>,
          toolsUsed |-> [t \in ToolNames |-> 0]]

SummaryFileCreate(st, filePath) ==
    IF st.live THEN [st EXCEPT !.filesCreated = Append(@, filePath)] ELSE st

\* mutant: the path pushed without the includes test, as file.create does
SummaryFileEditPush(st, filePath) ==
    IF st.live THEN [st EXCEPT !.filesEdited = Append(@, filePath)] ELSE st

SummaryFileEdit(st, filePath) ==
    IF st.live /\ ~ArrayIncludes(st.filesEdited, filePath)
    THEN [st EXCEPT !.filesEdited = Append(@, filePath)]
    ELSE st

\* mutant: the count written without the one read
SummaryToolAfterLost(st, tool) ==
    IF st.live THEN [st EXCEPT !.toolsUsed[tool] = 1] ELSE st

SummaryToolAfter(st, tool) ==
    IF st.live THEN [st EXCEPT !.toolsUsed[tool] = @ + 1] ELSE st

SummarySessionComplete(st) == NullStats

\* "session.complete": the figures of the summary written to the console,
\* when one is written
SummaryReport(st) ==
    [printed |-> st.live, created |-> Len(st.filesCreated),
     edited |-> Len(st.filesEdited), tools |-> st.toolsUsed]

\* mutant: the handlers other than session.create use stats without looking
\* whether it is null
SummaryReturnsUnguarded(fn, st) ==
    IF fn = "SummarySessionCreate" \/ st.live THEN Returned ELSE ThrownTypeError

\* what a call of a session-summary handler gives back: each is an async
\* function without a return value that touches stats only under
\* "if (stats)"
SummaryReturns(fn, st) == Returned

(***************************************************************************)
(* pr-helper: one changedFiles set and one sessionStartBranch per plugin   *)
(* closure.  The branch is what `git branch --show-current` printed, or    *)
(* null when the command failed.                                           *)
(***************************************************************************)
PrHelperFileChanged(files, filePath) == files \cup {filePath}

PrHelperSessionComplete(files) == {}

(***************************************************************************)
(* console-log-warning                                                     *)
(***************************************************************************)
Least(S) == CHOOSE m \in S : \A k \in S : m <= k

\* RegExp.prototype.test of a pattern with the g flag: the search starts at
\* lastIndex; a match leaves lastIndex at its end, a failure at 0.  (The
\* patterns are literal texts: a match that starts at i has one end.)
TestG(p, s, lastIndex) ==
    LET starts == {i \in (lastIndex + 1)..(Len(s) + 1) : Ends(p.re, s, i) # {}}
    IN  IF starts = {} THEN [found |-> FALSE, lastIndex |-> 0]
        ELSE [found |-> TRUE, lastIndex |-> Max(Ends(p.re, s, Least(starts))) - 1]

\* CONSOLE_PATTERNS.some(p => p.test(line)), from pattern k on: li holds the
\* lastIndex of each pattern
RECURSIVE SomeConsole(_, _, _)
SomeConsole(k, line, li) ==
    IF k > Len(CONSOLE_PATTERNS) THEN [found |-> FALSE, lastIndex |-> li]
    ELSE LET r == TestG(CONSOLE_PATTERNS[k], line, li[k])
             li2 == [li EXCEPT ![k] = r.lastIndex]
         IN  IF r.found THEN [found |-> TRUE, lastIndex |-> li2]
             ELSE SomeConsole(k + 1, line, li2)

\* String.prototype.split('\n')
RECURSIVE SplitLines(_)
SplitLines(s) ==
    LET nl == {k \in 1..Len(s) : s[k] = "\n"}
    IN  IF nl = {} THEN <<s>>
        ELSE <<SubSeq(s, 1, Least(nl) - 1)>> \o SplitLines(SubSeq(s, Least(nl) + 1, Len(s)))

RECURSIVE ScanLines(_, _, _, _)
ScanLines(contentLines, n, li, lines) ==
    IF n > Len(contentLines)
    THEN [found |-> Len(lines) > 0, lines |-> lines, lastIndex |-> li]
    ELSE IF FirstMatch(ALLOWED_PATTERNS, contentLines[n]) # 0
         THEN ScanLines(contentLines, n + 1, li, lines)
    ELSE LET r == SomeConsole(1, contentLines[n], li)
         IN  ScanLines(contentLines, n + 1, r.lastIndex,
                       IF r.found THEN Append(lines, n) ELSE lines)

containsConsoleLog(content, li) == ScanLines(SplitLines(content), 1, li, <<>>)

\* filePath.substring(filePath.lastIndexOf('.')): the whole path when it has
\* no dot (substring(-1))
ExtOf(filePath) ==
    LET dots == {k \in 1..Len(filePath) : filePath[k] = "."}
    IN  IF dots = {} THEN filePath ELSE SubSeq(filePath, Max(dots), Len(filePath))

DigitOf(d) ==
    CASE d = 0 -> "0" [] d = 1 -> "1" [] d = 2 -> "2" [] d = 3 -> "3" [] d = 4 -> "4"
      [] d = 5 -> "5" [] d = 6 -> "6" [] d = 7 -> "7" [] d = 8 -> "8" [] d = 9 -> "9"

\* Number.prototype.toString of a natural number
RECURSIVE NumberToString(_)
NumberToString(n) ==
    IF n < 10 THEN <<DigitOf(n)>> ELSE NumberToString(n \div 10) \o <<DigitOf(n % 10)>>

\* Array.prototype.join(', ') of line numbers
RECURSIVE JoinLines(_)
JoinLines(lines) ==
    IF Len(lines) = 0 THEN <<>>
    ELSE IF Len(lines) = 1 THEN NumberToString(lines[1])
    ELSE NumberToString(lines[1]) \o <<","," ">> \o JoinLines(Tail(lines))

ConsoleLogMessage(filePath, lines) ==
    <<"C","o","n","s","o","l","e",".","l","o","g"," ","d","e","t","e","c","t","e","d"," ","i","n"," ">> \o filePath \o <<" ","a","t"," ","l","i","n","e","(","s",")",":"," ">> \o JoinLines(lines) \o
    <<"\n"," "," "," ","C","o","n","s","i","d","e","r"," ","u","s","i","n","g"," ","a"," ","p","r","o","p","e","r"," ","l","o","g","g","e","r"," ","o","r"," ","r","e","m","o","v","i","n","g"," ","b","e","f","o","r","e"," ","c","o","m","m","i","t",".">>

CONSOLE_EXTENSIONS == << <<".","t","s">>, <<".","t","s","x">>, <<".","j","s">>, <<".","j","s","x">> >>

\* "tool.execute.after": what the call produces and the lastIndex values it
\* leaves in CONSOLE_PATTERNS
ConsoleLogWarning(tool, args, li) ==
    LET content == IF args.content # <<>> THEN args.content ELSE args.newString
        r == containsConsoleLog(content, li)
    IN  IF tool # "write" /\ tool # "edit" THEN [res |-> Returned, lastIndex |-> li]
        ELSE IF args.filePath = <<>> THEN [res |-> Returned, lastIndex |-> li]
        ELSE IF ~ArrayIncludes(CONSOLE_EXTENSIONS, ExtOf(args.filePath))
             THEN [res |-> Returned, lastIndex |-> li]
        ELSE [res |-> IF r.found
                      THEN Warned(<<ConsoleLogMessage(args.filePath, r.lines)>>)
                      ELSE Returned,
              lastIndex |-> r.lastIndex]

\* mutant: the content to scan is stored back into the arguments
ArgsAfterDefaulted(fn, args) ==
    IF fn = "ConsoleLogWarning"
    THEN [args EXCEPT !.content = IF @ # <<>> THEN @ ELSE args.newString]
    ELSE args

\* the arguments object as a handler leaves it: no handler of the plugins
\* assigns to it or to one of its properties
ArgsAfter(fn, args) == args

(***************************************************************************)
(* notification: a Map from session id to the time of its session.create.  *)
(* The map is a function on the session ids, Undefined where the key is    *)
(* absent; times are Date.now() in milliseconds.                           *)
(***************************************************************************)
Undefined == -1

minDuration == 30000

\* "session.create": sessionStartTimes.set(session.id, Date.now())
NotificationSessionCreate(times, id, t) == [times EXCEPT ![id] = t]

\* mutant: without the comparison with CONFIG.minDuration
NotificationSessionCompleteAlways(times, id, t) ==
    LET startTime == times[id]
        duration == t - startTime
    IN  IF startTime = Undefined \/ startTime = 0
        THEN [times |-> times, notified |-> Undefined]
        ELSE [times |-> [times EXCEPT ![id] = Undefined], notified |-> duration]

\* "session.complete": the map it leaves, and the duration it notifies of
\* (Undefined when it goes no further than the comparison with minDuration)
NotificationSessionComplete(times, id, t) ==
    LET startTime == times[id]
        duration == t - startTime
    IN  IF startTime = Undefined \/ startTime = 0
        THEN [times |-> times, notified |-> Undefined]
        ELSE [times |-> [times EXCEPT ![id] = Undefined],
              notified |-> IF duration < minDuration THEN Undefined ELSE duration]

\* how "await import('node-notifier')" ends: the module is loaded, or the
\* import is rejected because the module is not installed
ImportResults == {"loaded", "missing"}

\* "session.complete", the try: what the handler returns, and writes to the
\* console from its catch
NotificationSettled(times, id, t, imp) ==
    IF NotificationSessionComplete(times, id, t).notified # Undefined /\ imp = "missing"
    THEN Warned(<<"Notification skipped: node-notifier not installed">>)
    ELSE Returned

(***************************************************************************)
(* auto-format and type-checker.  Each awaits a child process (prettier,   *)
(* tsc) inside a try: whatever the child does, the handler returns         *)
(* nothing once the child has exited.                                      *)
(***************************************************************************)
FORMATTING_EXTENSIONS ==
    << <<".","t","s">>, <<".","t","s","x">>, <<".","j","s">>, <<".","j","s","x">>, <<".","j","s","o","n">>, <<".","c","s","s">>, <<".","s","c","s","s">>, <<".","m","d">> >>

TS_EXTENSIONS == << <<".","t","s">>, <<".","t","s","x">> >>

\* auto-format "file.edit" / "file.create": does the call reach its await
AutoFormatAwaits(filePath) == ArrayIncludes(FORMATTING_EXTENSIONS, ExtOf(filePath))

\* how the child process of an awaited command ends: it exits with status 0,
\* it exits with another status, or it cannot be started.  The shell of the
\* plugin context rejects the awaited command in the last two cases.
ChildStatuses == {"exit0", "nonzero", "nostart"}

\* mutant: the catch passes the rejection on
AutoFormatSettledRethrow(status) ==
    IF status = "exit0" THEN Returned ELSE Thrown(<<"C","o","m","m","a","n","d"," ","f","a","i","l","e","d">>)

\* auto-format after its await: try { await ... } catch { }
AutoFormatSettled(status) == Returned

\* type-checker "file.edit" / "file.create"
TypeCheckerFileChanged(files, filePath) ==
    IF ArrayIncludes(TS_EXTENSIONS, ExtOf(filePath)) THEN files \cup {filePath} ELSE files

\* type-checker "session.complete": does the call reach its await
TypeCheckerAwaits(files) == Cardinality(files) # 0

\* type-checker "session.complete" after its await: the line written to the
\* console by the try or by the catch
TypeCheckerSettled(status) ==
    IF status = "exit0" THEN Warned(<<"No TypeScript errors found">>)
    ELSE Warned(<<"TypeScript errors detected:">>)

\* mutant: without the finally
TypeCheckerFinallyKeep(files) == files

\* type-checker "session.complete", finally: modifiedTsFiles.clear()
TypeCheckerFinally(files) == {}

(***************************************************************************)
(* test-watcher.  modifiedTestFiles is a Set<string>: it keeps its members *)
(* in the order they were first added, and Array.from lists them so.       *)
(***************************************************************************)
TestExt == Alt(<<Lit(<<"t","s">>), Lit(<<"t","s","x">>), Lit(<<"j","s">>), Lit(<<"j","s","x">>)>>)

\* jest, vitest, playwright: Object.values(TEST_PATTERNS)
TEST_PATTERNS == <<
    Rx(Cat(<<Lit(<<".">>), Alt(<<Lit(<<"t","e","s","t">>), Lit(<<"s","p","e","c">>)>>), Lit(<<".">>), TestExt, Eol>>)),
    Rx(Cat(<<Lit(<<".">>), Alt(<<Lit(<<"t","e","s","t">>), Lit(<<"s","p","e","c">>)>>), Lit(<<".">>), TestExt, Eol>>)),
    Rx(Cat(<<Lit(<<".","s","p","e","c",".">>), Alt(<<Lit(<<"t","s">>), Lit(<<"j","s">>)>>), Eol>>)) >>

\* mutant: an array in place of the Set
TestWatcherFileChangedPush(files, filePath) ==
    IF FirstMatch(TEST_PATTERNS, filePath) # 0 THEN Append(files, filePath) ELSE files

\* test-watcher "file.edit" / "file.create"
TestWatcherFileChanged(files, filePath) ==
    IF FirstMatch(TEST_PATTERNS, filePath) # 0 /\ ~ArrayIncludes(files, filePath)
    THEN Append(files, filePath)
    ELSE files

\* files.join(' ')
RECURSIVE JoinSpace(_)
JoinSpace(fs) ==
    IF Len(fs) = 0 THEN <<>>
    ELSE IF Len(fs) = 1 THEN fs[1]
    ELSE fs[1] \o <<" ">> \o JoinSpace(Tail(fs))

\* the lines test-watcher "session.complete" writes to the console
TestWatcherLines(files) ==
    << <<"M","o","d","i","f","i","e","d"," ","t","e","s","t"," ","f","i","l","e","s"," ","t","h","i","s"," ","s","e","s","s","i","o","n",":">> >>
    \o [k \in 1..Len(files) |-> <<" "," "," ","-"," ">> \o files[k]]
    \o << <<"R","u","n"," ","t","e","s","t","s",":"," ","n","p","m"," ","t","e","s","t"," ","-","-"," ">> \o JoinSpace(files) >>

\* test-watcher "session.complete"
TestWatcherSessionComplete(files) ==
    IF Len(files) = 0 THEN Returned ELSE Warned(TestWatcherLines(files))

\* test-watcher "session.complete": modifiedTestFiles.clear()
TestWatcherClear(files) == IF Len(files) = 0 THEN files ELSE <<>>

(***************************************************************************)
(* templates/plugin-template.ts: the hooks of a plugin made from the       *)
(* template, and of its example, simple-logger.  A hook that may modify    *)
(* returns an object with the value to use; the template's bodies are      *)
(* placeholders ("modified command to change"), so the value returned is   *)
(* the one received with whatever the plugin's author appends to it.       *)
(***************************************************************************)
TemplatePlugins == {"plugin-a", "plugin-b"}

\* what a plugin made from the template may append to the value it returns
Modifications == { <<>>, <<" ","-","n">> }

\* a handler that returns a value
ReturnedValue(v) ==
    [kind |-> "return", name |-> "", message |-> <<>>, warned |-> <<>>, value |-> v]

HasValue(res) == res.kind = "return" /\ "value" \in DOMAIN res

\* 'bash:beforeExecute': async ({ command }) => { return { command } }
TemplateReturnCommand(command, modification) ==
    ReturnedValue([command |-> command \o modification])

\* 'file:afterRead', 'file:beforeWrite', 'message:beforeSend':
\* async ({ ..., content }) => { return { content } }
TemplateReturnContent(content, modification) ==
    ReturnedValue([content |-> content \o modification])

\* 'file:beforeRead', 'git:beforeCommit': return true
TemplateAllow == ReturnedValue(TRUE)

\* 'file:afterWrite', 'bash:afterExecute', 'session:start', ...: no return
TemplateObserve == Returned

\* simple-logger 'session:end': this.context read in an arrow function of a
\* module, where this is undefined
SimpleLoggerSessionEnd == ThrownTypeError

(***************************************************************************)
(* The hook objects the plugins return.  Each is an object literal: its    *)
(* properties in source order, a key written twice keeping only the value  *)
(* written last.                                                           *)
(***************************************************************************)
PluginNames ==
    {"pre-commit-check", "env-protection", "dangerous-command-blocker",
     "session-summary", "pr-helper"}

HookLiteral(plugin) ==
    CASE plugin = "pre-commit-check" ->
           << [key |-> "tool.execute.before", fn |-> "PreCommitBefore"],
              [key |-> "tool.execute.after", fn |-> "PreCommitAfter"] >>
      [] plugin = "env-protection" ->
           << [key |-> "tool.execute.before", fn |-> "EnvFileGuard"],
              [key |-> "tool.execute.before", fn |-> "EnvBashGuard"] >>
      [] plugin = "dangerous-command-blocker" ->
           << [key |-> "tool.execute.before", fn |-> "DangerousCommandBlocker"] >>
      [] plugin = "session-summary" ->
           << [key |-> "session.create", fn |-> "SummarySessionCreate"],
              [key |-> "file.create", fn |-> "SummaryFileCreate"],
              [key |-> "file.edit", fn |-> "SummaryFileEdit"],
              [key |-> "tool.execute.after", fn |-> "SummaryToolAfter"],
              [key |-> "session.complete", fn |-> "SummarySessionComplete"] >>
      [] plugin \in TemplatePlugins ->
           << [key |-> "file:beforeRead", fn |-> "TemplateAllow"],
              [key |-> "file:afterRead", fn |-> "TemplateReturnContent"],
              [key |-> "file:beforeWrite", fn |-> "TemplateReturnContent"],
              [key |-> "file:afterWrite", fn |-> "TemplateObserve"],
              [key |-> "bash:beforeExecute", fn |-> "TemplateReturnCommand"],
              [key |-> "bash:afterExecute", fn |-> "TemplateObserve"],
              [key |-> "git:beforeCommit", fn |-> "TemplateAllow"],
              [key |-> "git:afterCommit", fn |-> "TemplateObserve"],
              [key |-> "session:start", fn |-> "TemplateObserve"],
              [key |-> "session:end", fn |-> "TemplateObserve"],
              [key |-> "message:beforeSend", fn |-> "TemplateReturnContent"],
              [key |-> "message:afterReceive", fn |-> "TemplateObserve"] >>
      [] plugin = "simple-logger" ->
           << [key |-> "file:afterWrite", fn |-> "TemplateObserve"],
              [key |-> "bash:afterExecute", fn |-> "TemplateObserve"],
              [key |-> "session:end", fn |-> "SimpleLoggerSessionEnd"] >>
      [] plugin = "console-log-warning" ->
           << [key |-> "tool.execute.after", fn |-> "ConsoleLogWarning"] >>
      [] plugin = "notification" ->
           << [key |-> "session.create", fn |-> "NotificationSessionCreate"],
              [key |-> "session.complete", fn |-> "NotificationSessionComplete"] >>
      [] plugin = "test-watcher" ->
           << [key |-> "file.edit", fn |-> "TestWatcherFileChanged"],
              [key |-> "file.create", fn |-> "TestWatcherFileChanged"],
              [key |-> "session.complete", fn |-> "TestWatcherSessionComplete"] >>
      [] plugin = "auto-format" ->
           << [key |-> "file.edit", fn |-> "AutoFormat"],
              [key |-> "file.create", fn |-> "AutoFormat"] >>
      [] plugin = "type-checker" ->
           << [key |-> "file.edit", fn |-> "TypeCheckerFileChanged"],
              [key |-> "file.create", fn |-> "TypeCheckerFileChanged"],
              [key |-> "session.complete", fn |-> "TypeCheckerSessionComplete"] >>
      [] plugin = "pr-helper" ->
           << [key |-> "session.create", fn |-> "PrHelperSessionCreate"],
              [key |-> "file.edit", fn |-> "PrHelperFileChanged"],
              [key |-> "file.create", fn |-> "PrHelperFileChanged"],
              [key |-> "session.complete", fn |-> "PrHelperSessionComplete"] >>

\* the value of an object literal's property: "" when the key is not written
ObjectProperty(lit, key) ==
    LET ks == {k \in 1..Len(lit) : lit[k].key = key}
    IN  IF ks = {} THEN "" ELSE lit[Max(ks)].fn

PluginHook(plugin, event) == ObjectProperty(HookLiteral(plugin), event)

(***************************************************************************)
(* Inputs: the tool invocations, files and sessions the host dispatches.   *)
(***************************************************************************)
NoArgs == [command |-> <<>>, filePath |-> <<>>, content |-> <<>>, newString |-> <<>>]

BashCommands ==
    { <<"r","m"," ","-","r","f"," ","/">>,
      <<"g","i","t"," ","s","t","a","t","u","s">>,
      <<"p","r","i","n","t","e","n","v">>,
      <<"p","r","i","n","t","e","n","v",";"," ","r","m"," ","-","r","f"," ","~">>,
      <<"n","p","m"," ","p","u","b","l","i","s","h">>,
      <<"n","p","m"," ","p","u","b","l","i","s","h"," ","&","&"," ","r","m"," ","-","r","f"," ","/">>,
      <<"p","r","i","n","t","e","n","v",";"," ","d","o","c","k","e","r"," ","p","u","s","h"," ","a","p","p">>,
      <<"g","i","t"," ","c","o","m","m","i","t"," ","-","m"," ","w","i","p">>,
      <<"D","R","O","P"," ","T","A","B","L","E"," ","u","s","e","r","s">>,
      <<"c","a","t"," ",".","e","n","v">>,
      <<"g","i","t"," ","p","u","s","h"," ","-","-","f","o","r","c","e"," ","o","r","i","g","i","n"," ","m","a","i","n"," ","&","&"," ","e","c","h","o"," ","p","u","s","h","e","d"," ","t","h","e"," ","b","r","a","n","c","h"," ","t","o"," ","o","r","i","g","i","n">>,
      <<>> }

FilePaths == { <<".","e","n","v">>, <<".","e","n","v",".","e","x","a","m","p","l","e">>, <<"s","r","c","/","a","p","p",".","t","s">>, <<"c","o","n","f","i","g","/",".","e","n","v",".","l","o","c","a","l">>, <<>> }

Contents == { <<"A","K","I","A","A","B","C","D","E","F","G","H","I","J","K","L","M","N","O","P">>, <<"c","o","n","s","t"," ","x"," ","="," ","1">>, <<>> }

ToolInputs ==
    {[tool |-> "bash", args |-> [NoArgs EXCEPT !.command = c]] : c \in BashCommands}
    \cup {[tool |-> "read", args |-> [NoArgs EXCEPT !.filePath = f]] : f \in FilePaths}
    \cup {[tool |-> "write", args |-> [NoArgs EXCEPT !.filePath = f, !.content = c]] :
             f \in FilePaths, c \in Contents}
    \cup {[tool |-> "edit", args |-> [NoArgs EXCEPT !.filePath = f, !.newString = c]] :
             f \in FilePaths, c \in Contents}

\* what the tool's execution hands to tool.execute.after: a result with an
\* exit code, or no result at all
NoResult == [defined |-> FALSE, exitCode |-> 0]

ToolResults == {NoResult, [defined |-> TRUE, exitCode |-> 0], [defined |-> TRUE, exitCode |-> 1]}

SessionIds == {"s1", "s2"}

SessionTools == {"bash", "read"}

EditedPaths == { <<"a",".","t","s">>, <<"b",".","m","d">> }

BranchResults == {"main", "null"}

\* the plugins in the order of the repository's plugin table
BaseOrder ==
    << "env-protection", "pr-helper", "session-summary",
       "dangerous-command-blocker", "pre-commit-check" >>

Rotate(r, k) == [i \in 1..Len(r) |-> r[((i + k - 1) % Len(r)) + 1]]

Reverse(r) == [i \in 1..Len(r) |-> r[Len(r) + 1 - i]]

\* the orders in which the host may have loaded the plugins: the rotations of
\* the base order and of its reverse, which put any three plugins in each of
\* their six relative orders
Registrations ==
    {Rotate(BaseOrder, k) : k \in 0..(Len(BaseOrder) - 1)}
    \cup {Rotate(Reverse(BaseOrder), k) : k \in 0..(Len(BaseOrder) - 1)}

(***************************************************************************)
(* The lifecycle dispatcher and the host pipeline around it.               *)
(***************************************************************************)
MaxInFlight == 2

MaxEvents == 3

\* the clock: Date.now() advances in steps of TickMs, MaxTicks times at most
MaxTicks == 3

TickMs == 15000

VARIABLES
    registry,           \* the plugins in registration order
    occ,                \* the event occurrences being dispatched, by slot
    op,                 \* the host's tool operation
    stats,              \* session-summary: let stats
    changedFiles,       \* pr-helper: const changedFiles
    sessionStartBranch, \* pr-helper: let sessionStartBranch
    active,             \* the sessions started and not ended
    expect,             \* per session, the events dispatched since its start
    owner,              \* the session whose session.create made stats
    foreign,            \* an event of another session reached stats since
    nEvents,            \* events dispatched so far
    lastIndex,          \* console-log-warning: CONSOLE_PATTERNS[k].lastIndex
    modifiedTsFiles,    \* type-checker: const modifiedTsFiles
    abandoned,          \* type-checker calls cut off by the timeout, still awaiting
    sessionStartTimes,  \* notification: const sessionStartTimes
    now,                \* Date.now()
    notice,             \* notification: the notifications sent
    loop,               \* a rule loop: its rules, its input and how far it is
    modifiedTestFiles   \* test-watcher: const modifiedTestFiles

vars == <<registry, occ, op, stats, changedFiles, sessionStartBranch, active,
          expect, owner, foreign, nEvents, lastIndex, modifiedTsFiles, abandoned,
          sessionStartTimes, now, notice, loop, modifiedTestFiles>>

NoLoop == [rules |-> "", input |-> <<>>, n |-> 0, hits |-> <<>>, done |-> TRUE]

NoPayload ==
    [tool |-> "", args |-> NoArgs, result |-> NoResult, filePath |-> <<>>, sid |-> ""]

NoOcc ==
    [event |-> "none", payload |-> NoPayload, given |-> NoPayload, idx |-> 0,
     ran |-> <<>>, outcome |-> "none", reason |-> <<>>, children |-> <<>>, commands |-> <<>>]

\* the handlers registered for an event, in registration order
RECURSIVE HandlersFrom(_, _, _)
HandlersFrom(reg, k, event) ==
    IF k > Len(reg) THEN <<>>
    ELSE (IF PluginHook(reg[k], event) # ""
          THEN <<[plugin |-> reg[k], fn |-> PluginHook(reg[k], event)]>>
          ELSE <<>>) \o HandlersFrom(reg, k + 1, event)

HandlersFor(reg, event) == HandlersFrom(reg, 1, event)

\* dispatch(eventName, payload), step 1
NewOcc(reg, event, payload) ==
    [event |-> event, payload |-> payload, given |-> payload, idx |-> 1,
     ran |-> <<>>,
     outcome |-> IF Len(HandlersFor(reg, event)) = 0 THEN "Proceed" ELSE "running",
     reason |-> <<>>, children |-> <<>>, commands |-> <<>>]

\* the payload a returned object stands for: the object replaces the payload
\* whole, so what it does not name is absent
PayloadOf(v) ==
    IF "command" \in DOMAIN v THEN [NoPayload EXCEPT !.args.command = v.command]
    ELSE [NoPayload EXCEPT !.args.content = v.content]

\* the call of one handler with the current payload; m is what a handler made
\* from the template appends
Invoke(fn, p, m) ==
    CASE fn = "PreCommitBefore" -> PreCommitBefore(p.tool, p.args, m)
      [] fn = "TemplateReturnCommand" ->
           LET r == TemplateReturnCommand(p.args.command, m)
           IN  [r EXCEPT !.value = PayloadOf(@)]
      [] fn = "TemplateReturnContent" ->
           LET r == TemplateReturnContent(p.args.content, m)
           IN  [r EXCEPT !.value = PayloadOf(@)]
      [] fn = "ConsoleLogWarning" -> ConsoleLogWarning(p.tool, p.args, lastIndex).res
      [] fn = "TemplateAllow" -> TemplateAllow
      [] fn = "TemplateObserve" -> TemplateObserve
      [] fn = "SimpleLoggerSessionEnd" -> SimpleLoggerSessionEnd
      [] fn = "PreCommitAfter" -> PreCommitAfter(p.tool, p.args, p.result, m)
      [] fn = "EnvFileGuard" -> EnvFileGuard(p.tool, p.args)
      [] fn = "EnvBashGuard" -> EnvBashGuard(p.tool, p.args)
      [] fn = "DangerousCommandBlocker" -> DangerousCommandBlocker(p.tool, p.args)
      [] fn \in {"SummarySessionCreate", "SummaryFileCreate", "SummaryFileEdit",
                 "SummaryToolAfter", "SummarySessionComplete"} ->
           SummaryReturns(fn, stats)
      [] fn = "NotificationSessionComplete" ->
           NotificationSettled(sessionStartTimes, p.sid, now, m)
      [] fn = "TestWatcherSessionComplete" ->
           TestWatcherSessionComplete(modifiedTestFiles)
      [] OTHER -> Returned

SessionStartTimesAfter(fn, p, times, t) ==
    CASE fn = "NotificationSessionCreate" -> NotificationSessionCreate(times, p.sid, t)
      [] fn = "NotificationSessionComplete" ->
           NotificationSessionComplete(times, p.sid, t).times
      [] OTHER -> times

\* notifier.default.notify(...) is reached when the import succeeded
NoticeAfter(fn, p, times, t, sent, imp) ==
    IF fn = "NotificationSessionComplete"
       /\ NotificationSessionComplete(times, p.sid, t).notified # Undefined
       /\ imp = "loaded"
    THEN Append(sent, [id |-> p.sid,
                       duration |-> NotificationSessionComplete(times, p.sid, t).notified])
    ELSE sent

ModifiedTsFilesAfter(fn, p, files) ==
    IF fn = "TypeCheckerFileChanged" THEN TypeCheckerFileChanged(files, p.filePath)
    ELSE files

ModifiedTestFilesAfter(fn, p, files) ==
    CASE fn = "TestWatcherFileChanged" -> TestWatcherFileChanged(files, p.filePath)
      [] fn = "TestWatcherSessionComplete" -> TestWatcherClear(files)
      [] OTHER -> files

\* the calls that reach an await on a child process: the handler is
\* suspended there until the child exits
Suspends(fn, p) ==
    CASE fn = "AutoFormat" -> AutoFormatAwaits(p.filePath)
      [] fn = "TypeCheckerSessionComplete" -> TypeCheckerAwaits(modifiedTsFiles)
      [] OTHER -> FALSE

LastIndexAfter(fn, p, li) ==
    IF fn = "ConsoleLogWarning" THEN ConsoleLogWarning(p.tool, p.args, li).lastIndex
    ELSE li

\* how the lint and the test command of pre-commit-check may end
PreCommitRuns == {[lint |-> a, test |-> b] : a, b \in ChildStatuses}

\* what a handler made from the template may append, how the import of
\* notification's session.complete may end and how the commands of
\* pre-commit-check may; nothing for the others
ModificationsFor(fn) ==
    IF fn \in {"TemplateReturnCommand", "TemplateReturnContent"} THEN Modifications
    ELSE IF fn = "NotificationSessionComplete" THEN ImportResults
    ELSE IF fn = "PreCommitBefore" THEN PreCommitRuns
    ELSE IF fn = "PreCommitAfter" THEN ChildStatuses
    ELSE {<<>>}

\* the commands a handler that does not suspend has run by its return
CommandsRun(fn, p, m) ==
    CASE fn = "PreCommitBefore" -> PreCommitBeforeCommands(p.tool, p.args, m)
      [] fn = "PreCommitAfter" -> PreCommitAfterCommands(p.tool, p.args, p.result, m)
      [] OTHER -> <<>>

StatsAfter(fn, p, st) ==
    CASE fn = "SummarySessionCreate" -> SummarySessionCreate(st)
      [] fn = "SummaryFileCreate" -> SummaryFileCreate(st, p.filePath)
      [] fn = "SummaryFileEdit" -> SummaryFileEdit(st, p.filePath)
      [] fn = "SummaryToolAfter" -> SummaryToolAfter(st, p.tool)
      [] fn = "SummarySessionComplete" -> SummarySessionComplete(st)
      [] OTHER -> st

ChangedFilesAfter(fn, p, files) ==
    CASE fn = "PrHelperFileChanged" -> PrHelperFileChanged(files, p.filePath)
      [] fn = "PrHelperSessionComplete" -> PrHelperSessionComplete(files)
      [] OTHER -> files

\* mutant: every error a handler throws counts as a veto
IsPolicyViolationAnyThrow(res) == res.kind = "throw"

\* a handler vetoes by throwing the error it made with new Error(reason)
IsPolicyViolation(res) == res.kind = "throw" /\ res.name = "Error"

Classify(res) ==
    IF res.kind = "return" THEN "ok"
    ELSE IF IsPolicyViolation(res) THEN "veto"
    ELSE "fail"

\* mutant: the veto is recorded but the remaining handlers are still called
DispatchedKeepsGoing(reg, o, res) ==
    LET hs == HandlersFor(reg, o.event)
        h == hs[o.idx]
        entry == [plugin |-> h.plugin, fn |-> h.fn, kind |-> Classify(res),
                  thrown |-> IF res.kind = "throw" THEN res.name ELSE "",
                  message |-> res.message, warned |-> res.warned,
                  input |-> o.payload,
                  returned |-> HasValue(res),
                  value |-> IF HasValue(res) THEN res.value ELSE NoPayload]
        vetoed == Classify(res) = "veto" \/ o.reason # <<>>
    IN  [o EXCEPT !.ran = Append(@, entry), !.idx = @ + 1,
                  !.payload = IF HasValue(res) THEN res.value ELSE @,
                  !.reason = IF Classify(res) = "veto" THEN res.message ELSE @,
                  !.outcome = IF o.idx < Len(hs) THEN "running"
                              ELSE IF vetoed THEN "Abort" ELSE "Proceed"]

\* mutant: a returned payload is dropped, the next handler gets the old one
DispatchedKeepsPayload(reg, o, res) ==
    LET hs == HandlersFor(reg, o.event)
        h == hs[o.idx]
        entry == [plugin |-> h.plugin, fn |-> h.fn, kind |-> Classify(res),
                  thrown |-> IF res.kind = "throw" THEN res.name ELSE "",
                  message |-> res.message, warned |-> res.warned,
                  input |-> o.payload,
                  returned |-> HasValue(res),
                  value |-> IF HasValue(res) THEN res.value ELSE NoPayload]
    IN  IF Classify(res) = "veto"
        THEN [o EXCEPT !.ran = Append(@, entry), !.outcome = "Abort",
                       !.reason = res.message]
        ELSE [o EXCEPT !.ran = Append(@, entry), !.idx = @ + 1,
                       !.outcome = IF o.idx = Len(hs) THEN "Proceed" ELSE "running"]

\* dispatch, step 2 for the next handler and step 3 after the last one
Dispatched(reg, o, res) ==
    LET hs == HandlersFor(reg, o.event)
        h == hs[o.idx]
        entry == [plugin |-> h.plugin, fn |-> h.fn, kind |-> Classify(res),
                  thrown |-> IF res.kind = "throw" THEN res.name ELSE "",
                  message |-> res.message, warned |-> res.warned,
                  input |-> o.payload,
                  returned |-> HasValue(res),
                  value |-> IF HasValue(res) THEN res.value ELSE NoPayload]
    IN  IF Classify(res) = "veto"
        THEN [o EXCEPT !.ran = Append(@, entry), !.outcome = "Abort",
                       !.reason = res.message]
        ELSE [o EXCEPT !.ran = Append(@, entry), !.idx = @ + 1,
                       !.payload = IF HasValue(res) THEN res.value ELSE @,
                       !.outcome = IF o.idx = Len(hs) THEN "Proceed" ELSE "running"]

SummaryFns ==
    {"SummarySessionCreate", "SummaryFileCreate", "SummaryFileEdit",
     "SummaryToolAfter", "SummarySessionComplete"}

DispatchStep(slot) ==
    /\ occ[slot].outcome = "running"
    /\ ~Suspends(HandlersFor(registry, occ[slot].event)[occ[slot].idx].fn,
                 occ[slot].payload)
    /\ LET o == occ[slot]
           h == HandlersFor(registry, o.event)[o.idx]
           left == [o EXCEPT !.payload.args = ArgsAfter(h.fn, @)]
       IN  /\ \E m \in ModificationsFor(h.fn) :
                /\ occ' = [occ EXCEPT ![slot] =
                             [Dispatched(registry, left, Invoke(h.fn, o.payload, m))
                                EXCEPT !.commands = @ \o CommandsRun(h.fn, o.payload, m)]]
                /\ notice' = NoticeAfter(h.fn, o.payload, sessionStartTimes, now,
                                         notice, m)
           /\ lastIndex' = LastIndexAfter(h.fn, o.payload, lastIndex)
           /\ modifiedTsFiles' = ModifiedTsFilesAfter(h.fn, o.payload, modifiedTsFiles)
           /\ modifiedTestFiles' =
                ModifiedTestFilesAfter(h.fn, o.payload, modifiedTestFiles)
           /\ sessionStartTimes' =
                SessionStartTimesAfter(h.fn, o.payload, sessionStartTimes, now)
           /\ stats' = StatsAfter(h.fn, o.payload, stats)
           /\ changedFiles' = ChangedFilesAfter(h.fn, o.payload, changedFiles)
           /\ \E br \in BranchResults :
                sessionStartBranch' =
                    IF h.fn = "PrHelperSessionCreate" THEN br ELSE sessionStartBranch
           /\ owner' = IF h.fn = "SummarySessionCreate" THEN o.payload.sid ELSE owner
           /\ foreign' =
                IF h.fn = "SummarySessionCreate" THEN FALSE
                ELSE IF h.fn \in SummaryFns /\ o.payload.sid # owner THEN TRUE
                ELSE foreign
    /\ UNCHANGED <<registry, op, active, expect, nEvents, abandoned, now, loop>>

(***************************************************************************)
(* The host's tool pipeline: tool.execute.before, the tool itself,         *)
(* tool.execute.after.                                                     *)
(***************************************************************************)
IdleOp ==
    [phase |-> "idle", tool |-> "", args |-> NoArgs, before |-> "",
     executed |-> FALSE, completed |-> FALSE, cancelled |-> FALSE, reported |-> <<>>]

\* mutant: the host runs the tool whatever the dispatch said
HostMayExecuteAlways(o) == TRUE

\* mutant: the host runs the tool unless a handler has vetoed so far
HostMayExecuteEarly(o) == o.outcome # "Abort"

\* the host runs the tool only when the dispatch said Proceed
HostMayExecute(o) == o.outcome = "Proceed"

\* what the host shows for a refused operation
HostReport(o) == o.reason

\* mutant: a cancelled operation is reported to tool.execute.after as done
HostCancelledPhantom(o, reg, payload) ==
    [op |-> [o EXCEPT !.phase = "after", !.cancelled = TRUE],
     occ |-> NewOcc(reg, "tool.execute.after",
                    [payload EXCEPT !.result = [defined |-> TRUE, exitCode |-> 0]])]

\* a cancelled operation ends there: no tool.execute.after is dispatched
HostCancelled(o, reg, payload) ==
    [op |-> [o EXCEPT !.phase = "cancelled", !.cancelled = TRUE], occ |-> NoOcc]

HostBeginTool(inp) ==
    /\ op.phase \in {"idle", "refused", "done", "cancelled"}
    /\ op' = [IdleOp EXCEPT !.phase = "before", !.tool = inp.tool, !.args = inp.args]
    /\ occ' = [occ EXCEPT ![1] =
                 NewOcc(registry, "tool.execute.before",
                        [NoPayload EXCEPT !.tool = inp.tool, !.args = inp.args])]
    /\ UNCHANGED <<registry, stats, changedFiles, sessionStartBranch, active,
                   expect, owner, foreign, nEvents, lastIndex,
                   modifiedTsFiles, modifiedTestFiles, abandoned, sessionStartTimes, now, notice,
                   loop>>

HostRefuse ==
    /\ op.phase = "before"
    /\ occ[1].outcome = "Abort"
    /\ op' = [op EXCEPT !.phase = "refused", !.before = occ[1].outcome,
                       !.reported = HostReport(occ[1])]
    /\ UNCHANGED <<registry, occ, stats, changedFiles, sessionStartBranch,
                   active, expect, owner, foreign, nEvents, lastIndex,
                   modifiedTsFiles, modifiedTestFiles, abandoned, sessionStartTimes, now, notice,
                   loop>>

\* the tool starts to run
HostRun ==
    /\ op.phase = "before"
    /\ HostMayExecute(occ[1])
    /\ op' = [op EXCEPT !.phase = "running", !.before = occ[1].outcome,
                       !.executed = TRUE]
    /\ UNCHANGED <<registry, occ, stats, changedFiles, sessionStartBranch,
                   active, expect, owner, foreign, nEvents, lastIndex,
                   modifiedTsFiles, modifiedTestFiles, abandoned, sessionStartTimes, now, notice,
                   loop>>

\* the tool has run: tool.execute.after is dispatched with its result
HostExecute(result) ==
    /\ op.phase = "running"
    /\ op' = [op EXCEPT !.phase = "after", !.completed = TRUE]
    /\ occ' = [occ EXCEPT ![1] =
                 NewOcc(registry, "tool.execute.after",
                        [occ[1].payload EXCEPT !.result = result])]
    /\ UNCHANGED <<registry, stats, changedFiles, sessionStartBranch, active,
                   expect, owner, foreign, nEvents, lastIndex,
                   modifiedTsFiles, modifiedTestFiles, abandoned, sessionStartTimes, now, notice,
                   loop>>

\* the operation is cancelled while the tool runs
HostCancel ==
    /\ op.phase = "running"
    /\ LET c == HostCancelled(op, registry, occ[1].payload)
       IN  /\ op' = c.op
           /\ occ' = [occ EXCEPT ![1] = c.occ]
    /\ UNCHANGED <<registry, stats, changedFiles, sessionStartBranch, active,
                   expect, owner, foreign, nEvents, lastIndex,
                   modifiedTsFiles, modifiedTestFiles, abandoned, sessionStartTimes, now, notice,
                   loop>>

HostFinish ==
    /\ op.phase = "after"
    /\ occ[1].outcome \in {"Proceed", "Abort"}
    /\ op' = [op EXCEPT !.phase = "done"]
    /\ UNCHANGED <<registry, occ, stats, changedFiles, sessionStartBranch,
                   active, expect, owner, foreign, nEvents, lastIndex,
                   modifiedTsFiles, modifiedTestFiles, abandoned, sessionStartTimes, now, notice,
                   loop>>

NoExpect == [created |-> 0, edited |-> {}, tools |-> [t \in ToolNames |-> 0]]

Start ==
    /\ occ = [s \in 1..MaxInFlight |-> NoOcc]
    /\ op = IdleOp
    /\ stats = NullStats
    /\ changedFiles = {}
    /\ sessionStartBranch = "null"
    /\ active = {}
    /\ expect = [s \in SessionIds |-> NoExpect]
    /\ owner = ""
    /\ foreign = FALSE
    /\ nEvents = 0
    /\ lastIndex = [k \in 1..Len(CONSOLE_PATTERNS) |-> 0]
    /\ modifiedTsFiles = {}
    /\ modifiedTestFiles = <<>>
    /\ abandoned = 0
    /\ sessionStartTimes = [s \in SessionIds |-> Undefined]
    /\ now = TickMs
    /\ notice = <<>>
    /\ loop = NoLoop

Init == registry \in Registrations /\ Start

\* the session events reach session-summary and pr-helper only: either may
\* have been loaded first
InitSession == registry \in {BaseOrder, Reverse(BaseOrder)} /\ Start

(***************************************************************************)
(* The host's session events.  A session's events are dispatched between   *)
(* its session.create and its session.complete; occurrences of different   *)
(* events, of one session or of several, may be in flight together and     *)
(* their handler calls interleave.  A handler without an await runs to     *)
(* completion, so each call is one step.                                   *)
(***************************************************************************)
InFlight(s) == {k \in 1..MaxInFlight : occ[k].event # "none" /\ occ[k].payload.sid = s}

FreeSlot(k) ==
    /\ occ[k].event = "none"
    /\ \A j \in 1..(k - 1) : occ[j].event # "none"

BeginEvent(k, event, payload) ==
    /\ FreeSlot(k)
    /\ nEvents < MaxEvents
    /\ nEvents' = nEvents + 1
    /\ occ' = [occ EXCEPT ![k] = NewOcc(registry, event, payload)]
    /\ UNCHANGED <<registry, op, stats, changedFiles, sessionStartBranch,
                   owner, foreign, lastIndex, modifiedTsFiles, modifiedTestFiles, abandoned,
                   sessionStartTimes, now, notice, loop>>

BeginSessionCreate(k, s) ==
    /\ s \notin active
    /\ InFlight(s) = {}
    /\ BeginEvent(k, "session.create", [NoPayload EXCEPT !.sid = s])
    /\ expect' = [expect EXCEPT ![s] = NoExpect]
    /\ UNCHANGED active

BeginFileCreate(k, s, f) ==
    /\ s \in active
    /\ \A j \in InFlight(s) : occ[j].event # "session.complete"
    /\ BeginEvent(k, "file.create", [NoPayload EXCEPT !.sid = s, !.filePath = f])
    /\ expect' = [expect EXCEPT ![s].created = @ + 1]
    /\ UNCHANGED active

BeginFileEdit(k, s, f) ==
    /\ s \in active
    /\ \A j \in InFlight(s) : occ[j].event # "session.complete"
    /\ BeginEvent(k, "file.edit", [NoPayload EXCEPT !.sid = s, !.filePath = f])
    /\ expect' = [expect EXCEPT ![s].edited = @ \cup {f}]
    /\ UNCHANGED active

BeginToolAfter(k, s, t) ==
    /\ s \in active
    /\ \A j \in InFlight(s) : occ[j].event # "session.complete"
    /\ BeginEvent(k, "tool.execute.after",
                  [NoPayload EXCEPT !.sid = s, !.tool = t,
                                    !.result = [defined |-> TRUE, exitCode |-> 0]])
    /\ expect' = [expect EXCEPT ![s].tools[t] = @ + 1]
    /\ UNCHANGED active

BeginSessionComplete(k, s) ==
    /\ s \in active
    /\ InFlight(s) = {}
    /\ BeginEvent(k, "session.complete", [NoPayload EXCEPT !.sid = s])
    /\ UNCHANGED <<active, expect>>

\* the dispatch has returned its outcome to the host
Retire(k) ==
    /\ occ[k].outcome \in {"Proceed", "Abort"}
    /\ occ' = [occ EXCEPT ![k] = NoOcc]
    /\ active' =
         CASE occ[k].event = "session.create" -> active \cup {occ[k].payload.sid}
           [] occ[k].event = "session.complete" -> active \ {occ[k].payload.sid}
           [] OTHER -> active
    /\ UNCHANGED <<registry, op, stats, changedFiles, sessionStartBranch,
                   expect, owner, foreign, nEvents, lastIndex,
                   modifiedTsFiles, modifiedTestFiles, abandoned, sessionStartTimes, now, notice,
                   loop>>

Next ==
    \/ \E inp \in ToolInputs : HostBeginTool(inp)
    \/ DispatchStep(1)
    \/ HostRefuse
    \/ HostRun
    \/ \E r \in ToolResults : HostExecute(r)
    \/ HostCancel
    \/ HostFinish

Spec == Init /\ [][Next]_vars

NextSession ==
    \/ \E k \in 1..MaxInFlight, s \in SessionIds : BeginSessionCreate(k, s)
    \/ \E k \in 1..MaxInFlight, s \in SessionIds, f \in EditedPaths : BeginFileCreate(k, s, f)
    \/ \E k \in 1..MaxInFlight, s \in SessionIds, f \in EditedPaths : BeginFileEdit(k, s, f)
    \/ \E k \in 1..MaxInFlight, s \in SessionIds, t \in SessionTools : BeginToolAfter(k, s, t)
    \/ \E k \in 1..MaxInFlight, s \in SessionIds : BeginSessionComplete(k, s)
    \/ \E k \in 1..MaxInFlight : DispatchStep(k)
    \/ \E k \in 1..MaxInFlight : Retire(k)

SpecSession == InitSession /\ [][NextSession]_vars

(***************************************************************************)
(* Properties                                                              *)
(***************************************************************************)
Slots == 1..MaxInFlight

Finished(o) == o.outcome \in {"Proceed", "Abort"}

\* the position of a plugin in the registration order
Pos(reg, plugin) == CHOOSE i \in 1..Len(reg) : reg[i] = plugin

LastRan(o) == o.ran[Len(o.ran)]

\* C1: the handlers of an occurrence are called in registration order, none
\* skipped and none twice; none is called after a handler has vetoed, a veto
\* makes the outcome Abort, and Proceed is returned only after every
\* registered handler has been called.
C1_OrderAndShortCircuit ==
    \A k \in Slots :
        LET o == occ[k]
            hooked == {p \in PluginNames : PluginHook(p, o.event) # ""}
        IN  o.event # "none" =>
              /\ \A i \in 1..Len(o.ran) : o.ran[i].plugin \in hooked
              /\ \A i, j \in 1..Len(o.ran) :
                    i < j => Pos(registry, o.ran[i].plugin) < Pos(registry, o.ran[j].plugin)
              /\ \A i \in 1..Len(o.ran) : \A p \in hooked :
                    Pos(registry, p) < Pos(registry, o.ran[i].plugin)
                        => \E j \in 1..(i - 1) : o.ran[j].plugin = p
              /\ \A i \in 1..(Len(o.ran) - 1) : o.ran[i].kind # "veto"
              /\ (Len(o.ran) > 0 /\ LastRan(o).kind = "veto") => o.outcome = "Abort"
              /\ o.outcome = "Proceed" => {o.ran[i].plugin : i \in 1..Len(o.ran)} = hooked

\* a veto by a handler that is neither the first nor the last registered
C1_Witness ==
    \E k \in Slots :
        /\ occ[k].outcome = "Abort"
        /\ Len(occ[k].ran) = 2
        /\ Len(HandlersFor(registry, occ[k].event)) = 3

\* C2: an operation whose tool.execute.before dispatch returned Abort is
\* never executed, and the reason the host reports is the message of the
\* error the vetoing handler threw.
C2_AbortHonoured ==
    /\ (occ[1].event = "tool.execute.before" /\ occ[1].outcome = "Abort")
          => ~op.executed /\ op.phase \in {"before", "refused"}
    /\ op.executed => op.before = "Proceed"
    /\ op.phase = "refused" =>
          /\ ~op.executed
          /\ occ[1].event = "tool.execute.before"
          /\ LastRan(occ[1]).kind = "veto"
          /\ op.reported = LastRan(occ[1]).message

C2_Witness ==
    /\ op.phase = "refused"
    /\ op.reported = CommandBlockedMessage

\* C3: a handler that throws an error that is no veto (any error but the
\* Error a policy makes with new Error) does not end the
\* dispatch: the next handler is called, the payload stays the one given,
\* and the outcome is Abort only when a later handler vetoes.
C3_FailureIsolated ==
    \A k \in Slots :
        LET o == occ[k]
            n == Len(HandlersFor(registry, o.event))
        IN  /\ \A i \in 1..Len(o.ran) :
                  o.ran[i].thrown \notin {"", "Error"} =>
                    /\ o.payload = o.given
                    /\ (i = Len(o.ran)) =>
                          /\ o.idx = i + 1
                          /\ o.outcome = IF i = n THEN "Proceed" ELSE "running"
            /\ o.outcome = "Abort" => LastRan(o).thrown = "Error"

\* pre-commit-check failed on a missing result, session-summary was still
\* called and the dispatch returned Proceed
C3_Witness ==
    \E k \in Slots :
        /\ occ[k].outcome = "Proceed"
        /\ Len(occ[k].ran) = 2
        /\ occ[k].ran[1].thrown = "TypeError"
        /\ occ[k].ran[2].plugin = "session-summary"

\* a finished tool.execute.before dispatch of a shell command
BashBeforeDone ==
    /\ occ[1].event = "tool.execute.before"
    /\ Finished(occ[1])
    /\ occ[1].given.tool = "bash"
    /\ occ[1].given.args.command # <<>>

Vetoer(o) == LastRan(o).plugin

IsDangerous(cmd) == FirstMatch(DANGEROUS_COMMANDS, cmd) # 0

\* C4 as claimed: a shell command that matches a dangerous rule yields Abort
\* with a reason that mentions irreversible damage, and one that matches no
\* dangerous rule yields Proceed with the payload unchanged.
C4_Original ==
    BashBeforeDone =>
        IF IsDangerous(occ[1].given.args.command)
        THEN occ[1].outcome = "Abort" /\ Includes(occ[1].reason, <<"i","r","r","e","v","e","r","s","i","b","l","e"," ","d","a","m","a","g","e">>)
        ELSE occ[1].outcome = "Proceed" /\ occ[1].payload = occ[1].given

\* C4 as amended: the dangerous-command blocker vetoes exactly the commands
\* that match a dangerous rule, with a reason that mentions irreversible
\* damage.  A command that matches a dangerous rule always yields Abort, with
\* that reason unless another handler vetoed first; a command that matches
\* none yields Proceed with the payload unchanged unless another plugin's
\* handler (the exposure guard of env-protection) vetoes it.
C4_Blocker ==
    /\ \A i \in 1..Len(occ[1].ran) :
          (occ[1].event = "tool.execute.before" /\ occ[1].given.tool = "bash"
             /\ occ[1].given.args.command # <<>>
             /\ occ[1].ran[i].plugin = "dangerous-command-blocker") =>
                IF IsDangerous(occ[1].given.args.command)
                THEN /\ occ[1].ran[i].kind = "veto"
                     /\ Includes(occ[1].ran[i].message, <<"i","r","r","e","v","e","r","s","i","b","l","e"," ","d","a","m","a","g","e">>)
                     /\ occ[1].reason = occ[1].ran[i].message
                ELSE occ[1].ran[i].kind = "ok"
    /\ BashBeforeDone =>
          IF IsDangerous(occ[1].given.args.command)
          THEN occ[1].outcome = "Abort"
          ELSE \/ occ[1].outcome = "Proceed" /\ occ[1].payload = occ[1].given
               \/ occ[1].outcome = "Abort" /\ Vetoer(occ[1]) = "env-protection"

\* the SQL statement in capitals is refused by the blocker
C4_Witness ==
    /\ op.phase = "refused"
    /\ op.args.command = <<"D","R","O","P"," ","T","A","B","L","E"," ","u","s","e","r","s">>
    /\ Vetoer(occ[1]) = "dangerous-command-blocker"
    /\ Includes(op.reported, <<"i","r","r","e","v","e","r","s","i","b","l","e"," ","d","a","m","a","g","e">>)

\* a finished tool.execute.before dispatch of a read, write or edit
FileBeforeDone ==
    /\ occ[1].event = "tool.execute.before"
    /\ Finished(occ[1])
    /\ occ[1].given.tool \in {"read", "write", "edit"}

\* C5 as claimed: a read or write of a path that matches the sensitive-file
\* rule set yields Abort, unless the file is on the allow-list, when it
\* yields Proceed.
C5_Original ==
    (FileBeforeDone /\ occ[1].given.tool \in {"read", "write"}
       /\ FirstMatch(SENSITIVE_PATTERNS, basename(occ[1].given.args.filePath)) # 0) =>
        IF ArrayIncludes(ALLOWED_FILES, basename(occ[1].given.args.filePath))
        THEN occ[1].outcome = "Proceed"
        ELSE occ[1].outcome = "Abort"

\* C6 as claimed: a write whose content holds AKIA and 16 alphanumeric
\* characters yields Abort, and a write whose content matches no secret
\* pattern (to a file that is not sensitive) yields Proceed.
C6_Original ==
    (FileBeforeDone /\ occ[1].given.tool = "write") =>
        /\ PatternTest(secretPatterns[4], occ[1].given.args.content)
              => occ[1].outcome = "Abort"
        /\ (FirstMatch(secretPatterns, occ[1].given.args.content) = 0
              /\ ~isSensitiveFile(occ[1].given.args.filePath))
              => occ[1].outcome = "Proceed"

\* the rule set a vetoing handler matched the command against
RulesOf(fn) ==
    IF fn = "DangerousCommandBlocker" THEN DANGEROUS_COMMANDS ELSE dangerousCommands

\* C7 as claimed: the reason shown is the explanation of the rule that
\* matched, so that a command blocked by another rule of the same handler
\* would be shown another reason.
C7_Original ==
    (BashBeforeDone /\ occ[1].outcome = "Abort") =>
        \A c \in BashCommands :
            LET fn == LastRan(occ[1]).fn
                res == Invoke(fn, [occ[1].given EXCEPT !.args.command = c], <<>>)
            IN  (res.kind = "throw"
                   /\ FirstMatch(RulesOf(fn), c)
                        # FirstMatch(RulesOf(fn), occ[1].given.args.command))
                    => res.message # occ[1].reason

\* C7 as amended: the reason shown is the message the vetoing handler builds,
\* which does not depend on the rule that matched: the dangerous-command
\* blocker quotes the first 50 characters of the command and says that it
\* could cause irreversible damage, the exposure guard of env-protection
\* gives one fixed text.  The host shows that message as it is.
C7_HandlerMessage ==
    /\ (BashBeforeDone /\ occ[1].outcome = "Abort") =>
          LET cmd == occ[1].given.args.command
          IN  occ[1].reason =
                IF Vetoer(occ[1]) = "dangerous-command-blocker"
                THEN <<"D","a","n","g","e","r","o","u","s"," ","c","o","m","m","a","n","d"," ","b","l","o","c","k","e","d",":"," ","\"">>
                     \o SubSeq(cmd, 1, Min(50, Len(cmd)))
                     \o <<".",".",".","\"","\n","T","h","i","s"," ","c","o","m","m","a","n","d"," ","c","o","u","l","d"," ","c","a","u","s","e"," ","i","r","r","e","v","e","r","s","i","b","l","e"," ","d","a","m","a","g","e",".">>
                ELSE <<"C","o","m","m","a","n","d"," ","b","l","o","c","k","e","d",":"," ","T","h","i","s"," ","c","o","m","m","a","n","d"," ","m","a","y"," ","e","x","p","o","s","e"," ","s","e","n","s","i","t","i","v","e"," ","d","a","t","a",".","\n","A","v","o","i","d"," ","p","r","i","n","t","i","n","g"," ","o","r"," ","e","c","h","o","i","n","g"," ","e","n","v","i","r","o","n","m","e","n","t"," ","v","a","r","i","a","b","l","e","s"," ","w","i","t","h"," ","s","e","c","r","e","t","s",".">>
    /\ op.phase = "refused" => op.reported = occ[1].reason

\* a refused command longer than the quoted part
C7_Witness ==
    /\ op.phase = "refused"
    /\ Vetoer(occ[1]) = "dangerous-command-blocker"
    /\ Len(op.args.command) > 50

\* session s is running, the stats value is the one its session.create made
\* and no event of another session has reached it since
Undisturbed(s) ==
    /\ s \in active
    /\ owner = s
    /\ ~foreign
    /\ \A k \in InFlight(s) : occ[k].event # "session.complete"

\* handler fn has been called for the occurrence in slot k
Called(k, fn) == \E i \in 1..Len(occ[k].ran) : occ[k].ran[i].fn = fn

\* the tool.execute.after occurrences of session s for tool t that have not
\* reached session-summary yet
PendingToolAfter(s, t) ==
    {k \in InFlight(s) :
        /\ occ[k].event = "tool.execute.after"
        /\ occ[k].payload.tool = t
        /\ ~Called(k, "SummaryToolAfter")}

\* the file.edit occurrences of session s that have not reached
\* session-summary yet
PendingFileEdit(s) ==
    {k \in InFlight(s) : occ[k].event = "file.edit" /\ ~Called(k, "SummaryFileEdit")}

\* C8: however the handler calls of concurrent tool.execute.after
\* occurrences of one session interleave, no increment is lost: the count
\* of a tool is the number of occurrences dispatched for it since the
\* session started, less those that have not reached the handler yet.
C8_NoLostUpdate ==
    \A s \in SessionIds :
        Undisturbed(s) =>
            \A t \in ToolNames :
                stats.toolsUsed[t]
                    = expect[s].tools[t] - Cardinality(PendingToolAfter(s, t))

\* two occurrences for the same tool in flight together, both counted
C8_Witness ==
    /\ Undisturbed("s1")
    /\ \A k \in Slots :
          /\ occ[k].event = "tool.execute.after"
          /\ occ[k].payload.sid = "s1"
          /\ occ[k].payload.tool = "bash"
          /\ Called(k, "SummaryToolAfter")
    /\ stats.toolsUsed["bash"] = 2

\* C9: after the session.create of a session, concurrent file.edit
\* occurrences of that session leave filesEdited holding each edited path
\* once, under every interleaving: two occurrences for two files leave it
\* with size 2.
C9_FilesEdited ==
    \A s \in SessionIds :
        (Undisturbed(s) /\ PendingFileEdit(s) = {}) =>
            /\ Len(stats.filesEdited) = Cardinality(expect[s].edited)
            /\ {stats.filesEdited[i] : i \in 1..Len(stats.filesEdited)} = expect[s].edited

\* two file.edit occurrences of s1 for two files in flight together
C9_Witness ==
    /\ Undisturbed("s1")
    /\ \A k \in Slots :
          /\ occ[k].event = "file.edit"
          /\ occ[k].payload.sid = "s1"
          /\ Called(k, "SummaryFileEdit")
    /\ occ[1].payload.filePath # occ[2].payload.filePath
    /\ Len(stats.filesEdited) = 2

\* C10 as claimed: a handler call made for an event of one session leaves
\* what the plugins hold for every other running session as it was.
C10_Isolation ==
    [][\A k \in Slots :
          Len(occ'[k].ran) > Len(occ[k].ran) =>
              \A b \in active \ {occ[k].payload.sid} :
                  stats' = stats /\ changedFiles' = changedFiles]_vars


(***************************************************************************)
(* Single events dispatched one after the other to whichever plugins are   *)
(* loaded: the plugins made from templates/plugin-template.ts, whose hooks *)
(* return values, and console-log-warning.                                 *)
(***************************************************************************)
TemplateCommands == { <<"l","s">>, <<"m","a","k","e">> }

TemplateContents == { <<"x">> }

\* the sequences without repetition over a set of plugins
RECURSIVE Orders(_)
Orders(S) ==
    IF S = {} THEN {<<>>}
    ELSE UNION {{<<p>> \o r : r \in Orders(S \ {p})} : p \in S}

\* any of the plugins made from the template may be loaded, in any order,
\* console-log-warning before them, after them or not at all
TemplateRegistrations ==
    LET made == UNION {Orders(S) : S \in SUBSET (TemplatePlugins \cup {"simple-logger"})}
    IN  made \cup {<<"console-log-warning">> \o r : r \in made}
             \cup {r \o <<"console-log-warning">> : r \in made}

\* the written text tool.execute.after is dispatched with
WrittenContents ==
    { <<"c","o","n","s","o","l","e",".","l","o","g","(","1",")">>, <<"a","\n","c","o","n","s","o","l","e",".","i","n","f","o","(","2",")">>, <<"c","o","n","s","o","l","e",".","w","a","r","n","(","3",")">>, <<>>,
      <<"c","o","n","s","o","l","e",".","l","o","g","(","1",")","\n","c","o","n","s","o","l","e",".","l","o","g","(","2",")">> }

AfterInputs ==
    {[tool |-> "bash", args |-> [NoArgs EXCEPT !.command = c]] : c \in TemplateCommands}
    \cup {[tool |-> "write", args |-> [NoArgs EXCEPT !.filePath = f, !.content = c]] :
             f \in EditedPaths, c \in WrittenContents}
    \cup {[tool |-> "edit", args |-> [NoArgs EXCEPT !.filePath = f, !.newString = c]] :
             f \in EditedPaths, c \in WrittenContents}

BeginTemplateEvent(k, event, payload) ==
    /\ BeginEvent(k, event, payload)
    /\ UNCHANGED <<active, expect>>

BeginBashBeforeExecute(k, c) ==
    BeginTemplateEvent(k, "bash:beforeExecute", [NoPayload EXCEPT !.args.command = c])

BeginBashAfterExecute(k, c) ==
    BeginTemplateEvent(k, "bash:afterExecute", [NoPayload EXCEPT !.args.command = c])

BeginFileBeforeWrite(k, c) ==
    BeginTemplateEvent(k, "file:beforeWrite", [NoPayload EXCEPT !.args.content = c])

BeginToolExecuteAfter(k, inp) ==
    BeginTemplateEvent(k, "tool.execute.after",
                       [NoPayload EXCEPT !.tool = inp.tool, !.args = inp.args,
                                         !.result = [defined |-> TRUE, exitCode |-> 0]])

InitTransform == registry \in TemplateRegistrations /\ Start

NextTransform ==
    \/ \E c \in TemplateCommands : BeginBashBeforeExecute(1, c)
    \/ \E c \in TemplateCommands : BeginBashAfterExecute(1, c)
    \/ \E c \in TemplateContents : BeginFileBeforeWrite(1, c)
    \/ \E inp \in AfterInputs : BeginToolExecuteAfter(1, inp)
    \/ DispatchStep(1)
    \/ Retire(1)

SpecTransform == InitTransform /\ [][NextTransform]_vars

\* the payload the dispatch holds when handler i is due: the value returned
\* last by the handlers before it, the given payload when none returned one
PayloadAt(o, i) ==
    LET prev == {j \in 1..(i - 1) : o.ran[j].returned}
    IN  IF prev = {} THEN o.given ELSE o.ran[Max(prev)].value

\* C11: each handler of an occurrence is invoked with the payload returned
\* last by the handlers before it (the given one when none returned any), and
\* after the last handler the outcome is Proceed with the payload returned last.
C11_Transform ==
    \A k \in Slots :
        LET o == occ[k]
        IN  /\ \A i \in 1..Len(o.ran) : o.ran[i].input = PayloadAt(o, i)
            /\ (o.outcome = "Proceed" /\ \E i \in 1..Len(o.ran) : o.ran[i].returned) =>
                  /\ Len(o.ran) = Len(HandlersFor(registry, o.event))
                  /\ o.payload = PayloadAt(o, Len(o.ran) + 1)

\* two handlers each returned a payload of its own: the second was given the
\* first one's and the dispatch proceeded with the second one's
C11_Witness ==
    \E k \in Slots :
        LET o == occ[k]
        IN  /\ o.outcome = "Proceed"
            /\ Len(o.ran) = 2
            /\ o.ran[1].returned /\ o.ran[1].value # o.given
            /\ o.ran[2].returned /\ o.ran[2].value # o.ran[1].value
            /\ o.ran[2].input = o.ran[1].value
            /\ o.payload = o.ran[2].value

\* C12: an event without handlers proceeds at once, and as long as no handler
\* of an occurrence has returned a value its payload is the one given: a
\* handler leaves the arguments it reads as they were, and when every handler
\* has returned nothing the dispatch proceeds with the given payload.
C12_Unchanged ==
    \A k \in Slots :
        LET o == occ[k]
            hs == HandlersFor(registry, o.event)
            quiet == \A i \in 1..Len(o.ran) : o.ran[i].kind = "ok" /\ ~o.ran[i].returned
        IN  o.event # "none" =>
              /\ quiet => o.payload = o.given
              /\ (quiet /\ Len(o.ran) = Len(hs)) => o.outcome = "Proceed"

\* console-log-warning scanned the newString of an edit, found a
\* console.log and warned; the dispatch proceeded with the arguments it got
C12_Witness ==
    /\ occ[1].event = "tool.execute.after"
    /\ occ[1].outcome = "Proceed"
    /\ Len(occ[1].ran) = 1
    /\ occ[1].ran[1].fn = "ConsoleLogWarning"
    /\ occ[1].given.args.content = <<>>
    /\ occ[1].given.args.newString # <<>>
    /\ lastIndex[1] > 0

\* an event none of the loaded plugins has a handler for
C12_WitnessNoHandlers ==
    /\ occ[1].event = "bash:beforeExecute"
    /\ Len(HandlersFor(registry, occ[1].event)) = 0
    /\ occ[1].outcome = "Proceed"

(***************************************************************************)
(* Handlers that await a child process.  The call is suspended at the      *)
(* await; the child may exit, and may never do.  The dispatcher awaits the *)
(* handler under a timeout: when it fires the call counts as failed and    *)
(* the dispatch goes on, the call itself staying suspended.                *)
(***************************************************************************)
AsyncOrder == << "auto-format", "type-checker", "session-summary" >>

AsyncSessions == {"s1"}

AsyncPaths == { <<"a",".","t","s">>, <<"M","a","k","e","f","i","l","e">> }

\* what the dispatcher makes of a handler that outlived its timeout
TimedOut ==
    [kind |-> "throw", name |-> "TimeoutError", message |-> <<"h","a","n","d","l","e","r"," ","t","i","m","e","d"," ","o","u","t">>,
     warned |-> <<>>]

\* mutant: no timer is set for the call
TimeoutDueNever(o) == FALSE

\* the timer of an awaited call has run out
TimeoutDue(o) == o.outcome = "awaiting"

\* the call reaches its await and starts the command; recorded is what
\* modifiedTsFiles holds at that moment
HandlerAwait(k) ==
    /\ occ[k].outcome = "running"
    /\ Suspends(HandlersFor(registry, occ[k].event)[occ[k].idx].fn, occ[k].payload)
    /\ occ' = [occ EXCEPT
                 ![k].outcome = "awaiting",
                 ![k].children =
                     Append(@, [fn |-> HandlersFor(registry, occ[k].event)[occ[k].idx].fn,
                                status |-> "running",
                                recorded |-> modifiedTsFiles])]
    /\ UNCHANGED <<registry, op, stats, changedFiles, sessionStartBranch,
                   active, expect, owner, foreign, nEvents, lastIndex,
                   modifiedTsFiles, modifiedTestFiles, abandoned, sessionStartTimes, now, notice,
                   loop>>

\* what the handler returns or throws once the command it awaits has settled
Settled(fn, status) ==
    IF fn = "AutoFormat" THEN AutoFormatSettled(status) ELSE TypeCheckerSettled(status)

\* the child ends: the handler resumes, runs its try to the end or its
\* catch, then its finally, and returns
ChildExits(k, status) ==
    /\ occ[k].outcome = "awaiting"
    /\ LET o == [occ[k] EXCEPT !.children[Len(occ[k].children)].status = status]
           h == HandlersFor(registry, o.event)[o.idx]
       IN  /\ occ' = [occ EXCEPT ![k] = Dispatched(registry, o, Settled(h.fn, status))]
           /\ modifiedTsFiles' =
                IF h.fn = "TypeCheckerSessionComplete"
                THEN TypeCheckerFinally(modifiedTsFiles)
                ELSE modifiedTsFiles
    /\ UNCHANGED <<registry, op, stats, changedFiles, sessionStartBranch,
                   active, expect, owner, foreign, nEvents, lastIndex,
                   abandoned, sessionStartTimes, now, notice, loop, modifiedTestFiles>>

\* the timeout fires first
HandlerTimeout(k) ==
    /\ occ[k].outcome = "awaiting"
    /\ TimeoutDue(occ[k])
    /\ LET o == occ[k]
           h == HandlersFor(registry, o.event)[o.idx]
       IN  /\ occ' = [occ EXCEPT ![k] = Dispatched(registry, o, TimedOut)]
           /\ abandoned' =
                IF h.fn = "TypeCheckerSessionComplete" THEN abandoned + 1 ELSE abandoned
    /\ UNCHANGED <<registry, op, stats, changedFiles, sessionStartBranch,
                   active, expect, owner, foreign, nEvents, lastIndex,
                   modifiedTsFiles, modifiedTestFiles, sessionStartTimes, now, notice, loop>>

\* the child of a call that was cut off exits after all: its finally runs
LateChildExit ==
    /\ abandoned > 0
    /\ abandoned' = abandoned - 1
    /\ modifiedTsFiles' = TypeCheckerFinally(modifiedTsFiles)
    /\ UNCHANGED <<registry, occ, op, stats, changedFiles, sessionStartBranch,
                   active, expect, owner, foreign, nEvents, lastIndex,
                   sessionStartTimes, now, notice, loop, modifiedTestFiles>>

InitAsync == registry \in {AsyncOrder, Reverse(AsyncOrder)} /\ Start

\* one event at a time
NextAsync ==
    \/ \E s \in AsyncSessions : BeginSessionCreate(1, s)
    \/ \E s \in AsyncSessions, f \in AsyncPaths : BeginFileCreate(1, s, f)
    \/ \E s \in AsyncSessions, f \in AsyncPaths : BeginFileEdit(1, s, f)
    \/ \E s \in AsyncSessions : BeginSessionComplete(1, s)
    \/ DispatchStep(1)
    \/ HandlerAwait(1)
    \/ \E st \in ChildStatuses : ChildExits(1, st)
    \/ HandlerTimeout(1)
    \/ LateChildExit
    \/ Retire(1)

\* the dispatcher takes its steps and its timers fire; a child process need
\* never exit
FairAsync == WF_vars(DispatchStep(1) \/ HandlerAwait(1) \/ HandlerTimeout(1))

SpecAsync == InitAsync /\ [][NextAsync]_vars /\ FairAsync

\* a handler call cut off by the timeout is followed by the next handler and
\* the dispatch does not abort
TimeoutIsolated ==
    \A k \in Slots :
        LET o == occ[k]
            n == Len(HandlersFor(registry, o.event))
        IN  /\ o.outcome # "Abort"
            /\ \A i \in 1..Len(o.ran) :
                  (o.ran[i].thrown = "TimeoutError" /\ i = Len(o.ran)) =>
                      /\ o.idx = i + 1
                      /\ IF i = n THEN o.outcome = "Proceed"
                         ELSE o.outcome \in {"running", "awaiting"}

\* C13: every dispatch under way eventually returns an outcome, whether or
\* not the child a handler awaits ever exits; a call cut off by the timeout
\* is followed by the remaining handlers and never makes the outcome Abort.
C13_Timeout ==
    /\ \A k \in Slots : (occ[k].outcome \in {"running", "awaiting"}) ~> Finished(occ[k])
    /\ []TimeoutIsolated

\* a dispatch that proceeded after its first handler had been cut off and
\* the handlers after it had been called
C13_Witness ==
    \E k \in Slots :
        /\ occ[k].outcome = "Proceed"
        /\ Len(occ[k].ran) >= 2
        /\ occ[k].ran[1].thrown = "TimeoutError"
        /\ occ[k].ran[Len(occ[k].ran)].kind = "ok"

\* C14: for one tool operation, tool.execute.after is dispatched only when
\* the tool.execute.before dispatch has returned Proceed and the tool has
\* run to its end, and while handlers of tool.execute.before are still due
\* the tool has not been started: the handlers of the two events never
\* interleave.
C14_AfterFollowsBefore ==
    /\ occ[1].event = "tool.execute.after" =>
          /\ op.phase \in {"after", "done"}
          /\ op.before = "Proceed"
          /\ op.executed /\ op.completed
    /\ (occ[1].event = "tool.execute.before" /\ occ[1].outcome = "running") =>
          /\ op.phase = "before"
          /\ ~op.executed

\* pre-commit-check's tool.execute.after handler has been called for a git
\* commit that its tool.execute.before handler let through
C14_Witness ==
    /\ op.phase = "after"
    /\ op.args.command = <<"g","i","t"," ","c","o","m","m","i","t"," ","-","m"," ","w","i","p">>
    /\ occ[1].event = "tool.execute.after"
    /\ \E i \in 1..Len(occ[1].ran) : occ[1].ran[i].fn = "PreCommitAfter"

\* C15: an operation cancelled after tool.execute.before returned Proceed
\* gets no tool.execute.after dispatch: none of its handlers is called.
C15_NoAfterOnCancel ==
    op.cancelled =>
        /\ op.phase = "cancelled"
        /\ op.before = "Proceed"
        /\ ~op.completed
        /\ occ[1].event # "tool.execute.after"

\* a shell command let through by every tool.execute.before handler and
\* cancelled while it ran
C15_Witness ==
    /\ op.cancelled
    /\ op.tool = "bash"
    /\ op.args.command = <<"g","i","t"," ","s","t","a","t","u","s">>
    /\ op.before = "Proceed"

(***************************************************************************)
(* The session records the plugins keep.  The host sends the session       *)
(* events one at a time, for any session id at any moment: a second        *)
(* session.create for a running session, and events for a session that     *)
(* never started or has ended, are among them.  The clock advances         *)
(* between the steps.                                                      *)
(***************************************************************************)
StoreOrder == << "notification", "session-summary" >>

StorePaths == { <<"a",".","t","s">> }

StoreTools == {"bash"}

BeginStoreEvent(event, payload) ==
    /\ BeginEvent(1, event, payload)
    /\ UNCHANGED <<active, expect>>

BeginStoreCreate(s) == BeginStoreEvent("session.create", [NoPayload EXCEPT !.sid = s])

\* expect[s].created goes on counting over a repeated session.create
BeginStoreFileCreate(s, f) ==
    /\ BeginEvent(1, "file.create", [NoPayload EXCEPT !.sid = s, !.filePath = f])
    /\ expect' = [expect EXCEPT ![s].created = @ + 1]
    /\ UNCHANGED active

BeginStoreFileEdit(s, f) ==
    BeginStoreEvent("file.edit", [NoPayload EXCEPT !.sid = s, !.filePath = f])

BeginStoreToolAfter(s, t) ==
    BeginStoreEvent("tool.execute.after",
                    [NoPayload EXCEPT !.sid = s, !.tool = t,
                                      !.result = [defined |-> TRUE, exitCode |-> 0]])

BeginStoreComplete(s) == BeginStoreEvent("session.complete", [NoPayload EXCEPT !.sid = s])

Tick ==
    /\ now < TickMs * (MaxTicks + 1)
    /\ now' = now + TickMs
    /\ UNCHANGED <<registry, occ, op, stats, changedFiles, sessionStartBranch,
                   active, expect, owner, foreign, nEvents, lastIndex,
                   modifiedTsFiles, modifiedTestFiles, abandoned, sessionStartTimes, notice, loop>>

InitStore == registry \in {StoreOrder, Reverse(StoreOrder)} /\ Start

NextStore ==
    \/ \E s \in SessionIds : BeginStoreCreate(s)
    \/ \E s \in SessionIds, f \in StorePaths : BeginStoreFileCreate(s, f)
    \/ \E s \in SessionIds, f \in StorePaths : BeginStoreFileEdit(s, f)
    \/ \E s \in SessionIds, t \in StoreTools : BeginStoreToolAfter(s, t)
    \/ \E s \in SessionIds : BeginStoreComplete(s)
    \/ DispatchStep(1)
    \/ Retire(1)
    \/ Tick

SpecStore == InitStore /\ [][NextStore]_vars

\* the sessions notification holds a start time for
NotificationRecords == {s \in SessionIds : sessionStartTimes[s] # Undefined}

\* the sessions session-summary holds a record for: the one whose
\* session.create made the stats value, when there is one
SummaryRecords == IF stats.live THEN {owner} ELSE {}

\* no session event is being dispatched
StoreQuiet == occ[1].event = "none"

\* C16 as claimed: whenever no event is being dispatched, each plugin holds
\* a record exactly for the sessions that were started and have not ended.
C16_Original ==
    StoreQuiet => (NotificationRecords = active /\ SummaryRecords = active)

\* a handler has just been called for the session event in flight
StoreCalled(event) ==
    /\ occ[1].event = event
    /\ Len(occ'[1].ran) > Len(occ[1].ran)

\* C17 as claimed: a session.create for a session that is running fails with
\* DuplicateSessionError.
C17_Original ==
    (occ[1].event = "session.create" /\ Finished(occ[1])
       /\ occ[1].payload.sid \in active) =>
        \E i \in 1..Len(occ[1].ran) : occ[1].ran[i].thrown = "DuplicateSessionError"

\* C17 as amended: a session.create never fails, whether the id has a record
\* or not.  session-summary replaces whatever record it holds by an empty
\* one, notification sets the start time of the id to the current time,
\* replacing the one it held, and the dispatch is not aborted.
C17_Replaces ==
    [][StoreCalled("session.create") =>
          LET e == occ'[1].ran[Len(occ'[1].ran)]
              s == occ[1].payload.sid
          IN  /\ e.kind = "ok"
              /\ e.thrown = ""
              /\ occ'[1].outcome # "Abort"
              /\ e.fn = "SummarySessionCreate" =>
                    /\ stats'.live
                    /\ stats'.filesCreated = <<>>
                    /\ stats'.filesEdited = <<>>
                    /\ \A t \in ToolNames : stats'.toolsUsed[t] = 0
              /\ e.fn = "NotificationSessionCreate" =>
                    /\ sessionStartTimes'[s] = now
                    /\ \A b \in SessionIds \ {s} :
                          sessionStartTimes'[b] = sessionStartTimes[b]]_vars

\* a second session.create of a running session whose record listed a file:
\* both handlers returned, the record is empty and the start time is new
C17_Witness ==
    /\ occ[1].event = "session.create"
    /\ occ[1].outcome = "Proceed"
    /\ Len(occ[1].ran) = 2
    /\ occ[1].payload.sid \in active
    /\ expect[occ[1].payload.sid].created > 0
    /\ owner = occ[1].payload.sid
    /\ stats.live
    /\ stats.filesCreated = <<>>
    /\ sessionStartTimes[occ[1].payload.sid] = now
    /\ now > TickMs

\* C18 as claimed: a file.create or session.complete for a session that is
\* not running, because it never started or has ended, fails with
\* NotFoundError.
C18_Original ==
    (occ[1].event \in {"file.create", "session.complete"} /\ Finished(occ[1])
       /\ occ[1].payload.sid \notin active) =>
        \E i \in 1..Len(occ[1].ran) : occ[1].ran[i].thrown = "NotFoundError"

\* C18 as amended: a file.create or session.complete never fails and never
\* creates a record, whatever the session it is for.  A handler whose plugin
\* holds no record for it returns without any effect: session-summary when
\* its stats is null, notification when it has no start time for the id.
\* When session-summary does hold a record, the event is applied to that
\* record whichever session it belongs to: file.create appends the path,
\* session.complete removes the record.
C18_Ignored ==
    [][(StoreCalled("file.create") \/ StoreCalled("session.complete")) =>
          LET e == occ'[1].ran[Len(occ'[1].ran)]
              s == occ[1].payload.sid
          IN  /\ e.kind = "ok"
              /\ e.thrown = ""
              /\ occ'[1].outcome # "Abort"
              /\ stats'.live => stats.live
              /\ \A b \in SessionIds :
                    sessionStartTimes'[b] # Undefined
                        => sessionStartTimes'[b] = sessionStartTimes[b]
              /\ (e.plugin = "session-summary" /\ ~stats.live) => stats' = stats
              /\ (e.plugin = "notification" /\ sessionStartTimes[s] = Undefined) =>
                    /\ sessionStartTimes' = sessionStartTimes
                    /\ notice' = notice
              /\ (e.fn = "SummaryFileCreate" /\ stats.live) =>
                    stats' = [stats EXCEPT !.filesCreated =
                                               Append(@, occ[1].payload.filePath)]
              /\ e.fn = "SummarySessionComplete" => ~stats'.live]_vars

\* the first event of all is a file.create for a session that never started:
\* the handler returned, the dispatch proceeds and no plugin holds a record
C18_Witness ==
    /\ occ[1].event = "file.create"
    /\ nEvents = 1
    /\ occ[1].outcome = "Proceed"
    /\ Len(occ[1].ran) = 1
    /\ occ[1].ran[1].fn = "SummaryFileCreate"
    /\ occ[1].payload.sid \notin active
    /\ ~stats.live
    /\ NotificationRecords = {}

\* the handlers the loaded plugins write for an event, each property of each
\* hook object being one registration
Written(reg, event) ==
    UNION {{HookLiteral(reg[k])[i].fn :
               i \in {j \in 1..Len(HookLiteral(reg[k])) :
                          HookLiteral(reg[k])[j].key = event}} :
           k \in 1..Len(reg)}

\* C19 as claimed: no registration replaces or drops a handler registered
\* earlier for the same event, so a dispatch that proceeds has called every
\* handler the loaded plugins wrote for its event.
C19_Original ==
    (occ[1].event # "none" /\ occ[1].outcome = "Proceed") =>
        \A fn \in Written(registry, occ[1].event) :
            \E i \in 1..Len(occ[1].ran) : occ[1].ran[i].fn = fn

(***************************************************************************)
(* The rule loops "for (const pattern of rules) if (pattern.test(s)) ...", *)
(* one iteration a step.  loop.n rules have been tested, loop.hits are the *)
(* rules whose branch was taken, in the order they were taken.             *)
(***************************************************************************)
RuleSetNames == {"DANGEROUS_COMMANDS", "WARNINGS", "secretPatterns"}

RuleSet(name) ==
    CASE name = "DANGEROUS_COMMANDS" -> DANGEROUS_COMMANDS
      [] name = "WARNINGS" -> [k \in 1..Len(WARNINGS) |-> WARNINGS[k].pattern]
      [] name = "secretPatterns" -> secretPatterns
      [] OTHER -> <<>>

MatchInputs ==
    { <<"r","m"," ","-","r","f"," ","/">>,
      <<"r","m"," ","-","r","f"," ","/"," ",";"," ","r","m"," ","-","r","f"," ","*">>,
      <<"D","R","O","P"," ","T","A","B","L","E"," ","t",";"," ","d","r","o","p"," ","d","a","t","a","b","a","s","e"," ","d">>,
      <<"g","i","t"," ","s","t","a","t","u","s">>,
      <<"n","p","m"," ","p","u","b","l","i","s","h">>,
      <<"n","p","m"," ","p","u","b","l","i","s","h"," ","&","&"," ","d","o","c","k","e","r"," ","p","u","s","h">>,
      <<"a","w","s"," ","k","u","b","e","c","t","l"," ","d","e","l","e","t","e"," ","p","o","d">>,
      <<"A","K","I","A","A","B","C","D","E","F","G","H","I","J","K","L","M","N","O","P">>,
      <<"p","a","s","s","w","o","r","d","=","'","A","K","I","A","A","B","C","D","E","F","G","H","I","J","K","L","M","N","O","P","'">>,
      <<>> }

\* mutant: no branch leaves the loop
LoopThrowsNever(name) == FALSE

\* the branch taken on a match throws, which leaves the loop; the branch of
\* the WARNINGS loop writes two console.warn lines and goes on
LoopThrows(name) == name \in {"DANGEROUS_COMMANDS", "secretPatterns"}

\* mutant: the test of a rule succeeds whatever the input
LoopHitAlways(name, k, input) == TRUE

\* pattern.test(cmd) for the k-th rule of the set
LoopHit(name, k, input) == PatternTest(RuleSet(name)[k], input)

LoopBegin(name, input) ==
    /\ loop.done
    /\ loop' = [rules |-> name, input |-> input, n |-> 0, hits |-> <<>>,
                done |-> Len(RuleSet(name)) = 0]
    /\ UNCHANGED <<registry, occ, op, stats, changedFiles, sessionStartBranch,
                   active, expect, owner, foreign, nEvents, lastIndex,
                   modifiedTsFiles, modifiedTestFiles, abandoned, sessionStartTimes, now, notice>>

LoopTest ==
    /\ ~loop.done
    /\ LET k == loop.n + 1
           hit == LoopHit(loop.rules, k, loop.input)
       IN  loop' = [loop EXCEPT
                      !.n = k,
                      !.hits = IF hit THEN Append(@, k) ELSE @,
                      !.done = (hit /\ LoopThrows(loop.rules))
                                  \/ k = Len(RuleSet(loop.rules))]
    /\ UNCHANGED <<registry, occ, op, stats, changedFiles, sessionStartBranch,
                   active, expect, owner, foreign, nEvents, lastIndex,
                   modifiedTsFiles, modifiedTestFiles, abandoned, sessionStartTimes, now, notice>>

InitMatch == registry = BaseOrder /\ Start

NextMatch ==
    \/ \E name \in RuleSetNames, input \in MatchInputs : LoopBegin(name, input)
    \/ LoopTest

SpecMatch == InitMatch /\ [][NextMatch]_vars

\* the rules of the loop's set that match its input
Matching == {k \in 1..Len(RuleSet(loop.rules)) :
                PatternTest(RuleSet(loop.rules)[k], loop.input)}

\* the members of a set of numbers in ascending order
RECURSIVE Ascending(_)
Ascending(S) ==
    IF S = {} THEN <<>> ELSE <<Least(S)>> \o Ascending(S \ {Least(S)})

LoopOver == loop.rules # "" /\ loop.done

\* C20 as claimed: every rule loop acts on the first rule that matches and
\* on no other.
C20_Original ==
    LoopOver =>
        loop.hits = IF Matching = {} THEN <<>> ELSE <<Least(Matching)>>

\* C20 as amended: every rule loop tests its rules in declaration order.  The
\* loops over DANGEROUS_COMMANDS and secretPatterns stop at the first rule
\* that matches, testing none after it, and the handler throws exactly when
\* there is one.  The loop over WARNINGS does not stop: it tests every rule
\* and warns for each rule that matches, in declaration order.
C20_FirstMatch ==
    /\ loop.hits = Ascending({k \in Matching : k <= loop.n})
    /\ (LoopOver /\ loop.rules \in {"DANGEROUS_COMMANDS", "secretPatterns"}) =>
          /\ loop.hits = IF Matching = {} THEN <<>> ELSE <<Least(Matching)>>
          /\ loop.n = IF Matching = {} THEN Len(RuleSet(loop.rules))
                      ELSE Least(Matching)
    /\ (LoopOver /\ loop.rules = "DANGEROUS_COMMANDS") =>
          (loop.hits # <<>>) =
              (DangerousCommandBlocker("bash", [NoArgs EXCEPT !.command = loop.input]).kind
                  = "throw")
    /\ (LoopOver /\ loop.rules = "WARNINGS") =>
          /\ loop.n = Len(WARNINGS)
          /\ loop.hits = Ascending(Matching)
          /\ WarningsFor(1, loop.input)
                = [i \in 1..Len(loop.hits) |-> WARNINGS[loop.hits[i]].message]

\* a command that matches the first two dangerous rules: the loop stopped at
\* the first, the second was never tested
C20_Witness ==
    /\ LoopOver
    /\ loop.rules = "DANGEROUS_COMMANDS"
    /\ Cardinality(Matching) > 1
    /\ loop.hits = <<1>>
    /\ loop.n = 1

\* C21: a rule loop takes no branch for an input that matches no rule of
\* its set, and none for the empty text, having tested every rule; the
\* dangerous-command blocker returns normally for such a command (for the
\* empty command before it enters its loops).
C21_NoFalseMatch ==
    (LoopOver /\ (Matching = {} \/ loop.input = <<>>)) =>
        /\ loop.hits = <<>>
        /\ loop.n = Len(RuleSet(loop.rules))
        /\ loop.rules = "DANGEROUS_COMMANDS" =>
              DangerousCommandBlocker("bash", [NoArgs EXCEPT !.command = loop.input]).kind
                  = "return"

\* the empty text has been tested against every dangerous rule
C21_Witness ==
    /\ LoopOver
    /\ loop.rules = "DANGEROUS_COMMANDS"
    /\ loop.input = <<>>
    /\ loop.n = Len(DANGEROUS_COMMANDS)
    /\ loop.hits = <<>>

\* the lastIndex values of CONSOLE_PATTERNS when the module has just been
\* loaded
FreshLastIndex == [k \in 1..Len(CONSOLE_PATTERNS) |-> 0]

\* each call of the handler so far warned as a first call with the same
\* arguments would
ConsoleSameResult ==
    \A i \in 1..Len(occ[1].ran) :
        occ[1].ran[i].fn = "ConsoleLogWarning" =>
            occ[1].ran[i].warned
                = ConsoleLogWarning(occ[1].ran[i].input.tool, occ[1].ran[i].input.args,
                                    FreshLastIndex).res.warned

\* between the calls the patterns hold no state
ConsoleNoState == (occ[1].outcome # "running") => lastIndex = FreshLastIndex

\* C22 as claimed: the console-log rule set is matched purely.  Each call of
\* the handler warns as a first call with the same arguments would, and the
\* patterns hold no state between the calls.
C22_Original == ConsoleSameResult /\ ConsoleNoState

\* the warning rules a command matches
WarnRules(cmd) == {k \in 1..Len(WARNINGS) : PatternTest(WARNINGS[k].pattern, cmd)}

\* C23 as claimed: the dispatch of a shell command that matches a warning
\* rule yields Proceed.
C23_Original ==
    (BashBeforeDone /\ WarnRules(occ[1].given.args.command) # {}) =>
        occ[1].outcome = "Proceed"

\* C23 as amended: a match against the warning rules never aborts by itself.
\* For a command that matches no dangerous rule the blocker returns normally,
\* having warned with the message of every warning rule the command matches
\* and of no other, and the dispatch yields Proceed with the payload
\* unchanged unless the exposure guard of env-protection vetoes the command.
\* A command that also matches a dangerous rule is refused by the blocker
\* before any warning is written.
C23_WarnOnly ==
    /\ \A i \in 1..Len(occ[1].ran) :
          LET e == occ[1].ran[i]
              cmd == occ[1].given.args.command
          IN  (occ[1].event = "tool.execute.before" /\ occ[1].given.tool = "bash"
                 /\ cmd # <<>> /\ e.plugin = "dangerous-command-blocker") =>
                  IF IsDangerous(cmd)
                  THEN e.kind = "veto" /\ e.warned = <<>>
                  ELSE /\ e.kind = "ok"
                       /\ e.thrown = ""
                       /\ Len(e.warned) = Cardinality(WarnRules(cmd))
                       /\ \A k \in 1..Len(WARNINGS) :
                             (k \in WarnRules(cmd))
                                = (\E j \in 1..Len(e.warned) :
                                      e.warned[j] = WARNINGS[k].message)
    /\ (BashBeforeDone /\ WarnRules(occ[1].given.args.command) # {}
          /\ ~IsDangerous(occ[1].given.args.command)) =>
          \/ occ[1].outcome = "Proceed" /\ occ[1].payload = occ[1].given
          \/ /\ occ[1].outcome = "Abort"
             /\ Vetoer(occ[1]) = "env-protection"
             /\ FirstMatch(dangerousCommands, occ[1].given.args.command) # 0

\* npm publish was warned about by the blocker and let through
C23_Witness ==
    /\ occ[1].event = "tool.execute.before"
    /\ occ[1].outcome = "Proceed"
    /\ occ[1].given.args.command = <<"n","p","m"," ","p","u","b","l","i","s","h">>
    /\ \E i \in 1..Len(occ[1].ran) :
          /\ occ[1].ran[i].plugin = "dangerous-command-blocker"
          /\ occ[1].ran[i].warned = <<"Publishing to npm registry">>

\* the child process handler fn of the occurrence started, if it started one
ChildOf(o, fn) == {j \in 1..Len(o.children) : o.children[j].fn = fn}

\* C24: auto-format never aborts.  Its handler starts the formatter exactly
\* for a path with a formatting extension; once the formatter has ended,
\* with status 0, with another status or without having started, the call
\* has returned normally; the call fails only when the dispatcher's timeout
\* cuts it off, which is no veto; and every dispatch of file.create and
\* file.edit that has finished has proceeded.
C24_NeverAborts ==
    LET o == occ[1]
    IN  /\ \A i \in 1..Len(o.ran) :
              o.ran[i].fn = "AutoFormat" =>
                  /\ o.ran[i].kind # "veto"
                  /\ o.ran[i].thrown \in {"", "TimeoutError"}
                  /\ (ChildOf(o, "AutoFormat") # {})
                        = ArrayIncludes(FORMATTING_EXTENSIONS, ExtOf(o.given.filePath))
                  /\ \A j \in ChildOf(o, "AutoFormat") :
                        IF o.children[j].status \in ChildStatuses
                        THEN o.ran[i].kind = "ok" /\ o.ran[i].thrown = ""
                        ELSE o.ran[i].thrown = "TimeoutError"
        /\ \A j \in ChildOf(o, "AutoFormat") :
              ArrayIncludes(FORMATTING_EXTENSIONS, ExtOf(o.given.filePath))
        /\ (o.event \in {"file.create", "file.edit"} /\ Finished(o)) =>
              o.outcome = "Proceed"

\* the formatter could not be started for a.ts: the handler returned and the
\* dispatch proceeded
C24_Witness ==
    /\ occ[1].event = "file.edit"
    /\ occ[1].outcome = "Proceed"
    /\ \E j \in ChildOf(occ[1], "AutoFormat") : occ[1].children[j].status = "nostart"
    /\ \E i \in 1..Len(occ[1].ran) :
          occ[1].ran[i].fn = "AutoFormat" /\ occ[1].ran[i].kind = "ok"

\* C25: session-summary only observes.  Whatever it holds, no record before
\* a session has started or after it has ended, a record during a session,
\* each of its handlers returns normally without a value, the payload of
\* the dispatch stays the one given and the dispatch is not aborted.
C25_Observational ==
    LET o == occ[1]
    IN  /\ \A i \in 1..Len(o.ran) :
              o.ran[i].plugin = "session-summary" =>
                  /\ o.ran[i].kind = "ok"
                  /\ o.ran[i].thrown = ""
                  /\ ~o.ran[i].returned
                  /\ o.ran[i].input = o.given
        /\ o.event # "none" => (o.payload = o.given /\ o.outcome # "Abort")

\* a tool.execute.after reached the handler while no record was held
C25_Witness ==
    /\ occ[1].event = "tool.execute.after"
    /\ occ[1].outcome = "Proceed"
    /\ occ[1].ran[Len(occ[1].ran)].fn = "SummaryToolAfter"
    /\ occ[1].ran[Len(occ[1].ran)].kind = "ok"
    /\ ~stats.live
    /\ nEvents = 3

\* C28 as claimed: with env-protection registered, a tool.execute.before
\* event only proceeds when neither of the plugin's two guards objects to
\* it: both the file/secret guard and the exposure guard are in force.
C28_Original ==
    (/\ occ[1].event = "tool.execute.before"
     /\ Finished(occ[1])
     /\ occ[1].outcome = "Proceed"
     /\ \E i \in 1..Len(registry) : registry[i] = "env-protection") =>
        /\ EnvFileGuard(occ[1].given.tool, occ[1].given.args).kind = "return"
        /\ EnvBashGuard(occ[1].given.tool, occ[1].given.args).kind = "return"

(***************************************************************************)
(* Whole sessions, one event at a time: each session is started, receives  *)
(* its file and tool events and is ended, and two sessions may run side by *)
(* side.                                                                   *)
(***************************************************************************)
MaxReportEvents == 4

BeginReportEvent(event, payload) ==
    /\ occ[1].event = "none"
    /\ nEvents < MaxReportEvents
    /\ nEvents' = nEvents + 1
    /\ occ' = [occ EXCEPT ![1] = NewOcc(registry, event, payload)]
    /\ UNCHANGED <<registry, op, stats, changedFiles, sessionStartBranch,
                   owner, foreign, lastIndex, modifiedTsFiles, modifiedTestFiles, abandoned,
                   sessionStartTimes, now, notice, loop>>

BeginReportCreate(s) ==
    /\ s \notin active
    /\ BeginReportEvent("session.create", [NoPayload EXCEPT !.sid = s])
    /\ expect' = [expect EXCEPT ![s] = NoExpect]
    /\ UNCHANGED active

BeginReportFileCreate(s, f) ==
    /\ s \in active
    /\ BeginReportEvent("file.create", [NoPayload EXCEPT !.sid = s, !.filePath = f])
    /\ expect' = [expect EXCEPT ![s].created = @ + 1]
    /\ UNCHANGED active

BeginReportFileEdit(s, f) ==
    /\ s \in active
    /\ BeginReportEvent("file.edit", [NoPayload EXCEPT !.sid = s, !.filePath = f])
    /\ expect' = [expect EXCEPT ![s].edited = @ \cup {f}]
    /\ UNCHANGED active

BeginReportToolAfter(s, t) ==
    /\ s \in active
    /\ BeginReportEvent("tool.execute.after",
                        [NoPayload EXCEPT !.sid = s, !.tool = t,
                                          !.result = [defined |-> TRUE, exitCode |-> 0]])
    /\ expect' = [expect EXCEPT ![s].tools[t] = @ + 1]
    /\ UNCHANGED active

BeginReportComplete(s) ==
    /\ s \in active
    /\ BeginReportEvent("session.complete", [NoPayload EXCEPT !.sid = s])
    /\ UNCHANGED <<active, expect>>

InitReport == registry = <<"session-summary">> /\ Start

NextReport ==
    \/ \E s \in SessionIds : BeginReportCreate(s)
    \/ \E s \in SessionIds, f \in StorePaths : BeginReportFileCreate(s, f)
    \/ \E s \in SessionIds, f \in StorePaths : BeginReportFileEdit(s, f)
    \/ \E s \in SessionIds, t \in StoreTools : BeginReportToolAfter(s, t)
    \/ \E s \in SessionIds : BeginReportComplete(s)
    \/ DispatchStep(1)
    \/ Retire(1)

SpecReport == InitReport /\ [][NextReport]_vars

\* C26 as claimed: when session-summary handles the session.complete of a
\* session it writes a summary whose figures are those of the session's
\* events since its session.create, and the record is gone afterwards.
C26_Original ==
    [][(StoreCalled("session.complete")
          /\ occ'[1].ran[Len(occ'[1].ran)].fn = "SummarySessionComplete") =>
          LET s == occ[1].payload.sid
              r == SummaryReport(stats)
          IN  /\ r.printed
              /\ r.created = expect[s].created
              /\ r.edited = Cardinality(expect[s].edited)
              /\ \A t \in ToolNames : r.tools[t] = expect[s].tools[t]
              /\ ~stats'.live]_vars

\* session-summary has just been called for the event in flight
SummaryCalled(event) ==
    /\ StoreCalled(event)
    /\ occ'[1].ran[Len(occ'[1].ran)].plugin = "session-summary"

\* C27 as claimed: while a record is held, every dispatch of file.create,
\* file.edit or tool.execute.after changes it as the first dispatch of that
\* event and payload does: one more file created, one more file edited, one
\* more use of the tool.
C27_Original ==
    [][stats.live =>
          /\ SummaryCalled("file.create") =>
                Len(stats'.filesCreated) = Len(stats.filesCreated) + 1
          /\ SummaryCalled("file.edit") =>
                Len(stats'.filesEdited) = Len(stats.filesEdited) + 1
          /\ SummaryCalled("tool.execute.after") =>
                stats'.toolsUsed[occ[1].payload.tool]
                    = stats.toolsUsed[occ[1].payload.tool] + 1]_vars

\* C27 as amended: a repeated file.create or tool.execute.after changes the
\* record as the first one did: the path is appended to filesCreated once
\* more, the count of the tool grows by one once more.  A repeated
\* file.edit does not: the first dispatch for a path appends it to
\* filesEdited and every later one for that path changes nothing.  Nothing
\* else in the record changes, and without a record nothing changes at all.
C27_Delta ==
    [][/\ SummaryCalled("file.create") =>
             stats' = IF stats.live
                      THEN [stats EXCEPT !.filesCreated =
                                             Append(@, occ[1].payload.filePath)]
                      ELSE stats
       /\ SummaryCalled("tool.execute.after") =>
             stats' = IF stats.live
                      THEN [stats EXCEPT !.toolsUsed[occ[1].payload.tool] = @ + 1]
                      ELSE stats
       /\ SummaryCalled("file.edit") =>
             stats' = IF stats.live
                         /\ \A i \in 1..Len(stats.filesEdited) :
                               stats.filesEdited[i] # occ[1].payload.filePath
                      THEN [stats EXCEPT !.filesEdited =
                                             Append(@, occ[1].payload.filePath)]
                      ELSE stats]_vars

\* a session.create and two file.edit of one path were dispatched: the path
\* is listed once
C27_Witness ==
    /\ nEvents = 3
    /\ active = {"s1"}
    /\ owner = "s1"
    /\ occ[1].event = "file.edit"
    /\ occ[1].outcome = "Proceed"
    /\ stats.live
    /\ stats.filesEdited = <<occ[1].payload.filePath>>
    /\ stats.filesCreated = <<>>
    /\ \A t \in ToolNames : stats.toolsUsed[t] = 0

(***************************************************************************)
(* type-checker alone, with events of two sessions in flight together: a  *)
(* file event of one session may be dispatched while the session.complete *)
(* of the other is suspended at its await.                                 *)
(***************************************************************************)
MaxCheckEvents == 5

CheckPaths == { <<"a",".","t","s">>, <<"b",".","t","s","x">>, <<"n","o","t","e","s",".","m","d">> }

BeginCheckEvent(k, event, payload) ==
    /\ FreeSlot(k)
    /\ nEvents < MaxCheckEvents
    /\ nEvents' = nEvents + 1
    /\ occ' = [occ EXCEPT ![k] = NewOcc(registry, event, payload)]
    /\ UNCHANGED <<registry, op, stats, changedFiles, sessionStartBranch,
                   active, expect, owner, foreign, lastIndex, modifiedTsFiles, modifiedTestFiles,
                   abandoned, sessionStartTimes, now, notice, loop>>

BeginCheckCreate(k, s) ==
    /\ s \notin active
    /\ InFlight(s) = {}
    /\ BeginCheckEvent(k, "session.create", [NoPayload EXCEPT !.sid = s])

BeginCheckFileCreate(k, s, f) ==
    /\ s \in active
    /\ \A j \in InFlight(s) : occ[j].event # "session.complete"
    /\ BeginCheckEvent(k, "file.create", [NoPayload EXCEPT !.sid = s, !.filePath = f])

BeginCheckFileEdit(k, s, f) ==
    /\ s \in active
    /\ \A j \in InFlight(s) : occ[j].event # "session.complete"
    /\ BeginCheckEvent(k, "file.edit", [NoPayload EXCEPT !.sid = s, !.filePath = f])

BeginCheckComplete(k, s) ==
    /\ s \in active
    /\ InFlight(s) = {}
    /\ BeginCheckEvent(k, "session.complete", [NoPayload EXCEPT !.sid = s])

InitCheck == registry = <<"type-checker">> /\ Start

NextCheck ==
    \/ \E k \in Slots, s \in SessionIds : BeginCheckCreate(k, s)
    \/ \E k \in Slots, s \in SessionIds, f \in CheckPaths : BeginCheckFileCreate(k, s, f)
    \/ \E k \in Slots, s \in SessionIds, f \in CheckPaths : BeginCheckFileEdit(k, s, f)
    \/ \E k \in Slots, s \in SessionIds : BeginCheckComplete(k, s)
    \/ \E k \in Slots : DispatchStep(k)
    \/ \E k \in Slots : HandlerAwait(k)
    \/ \E k \in Slots, st \in ChildStatuses : ChildExits(k, st)
    \/ \E k \in Slots : Retire(k)

SpecCheck == InitCheck /\ [][NextCheck]_vars

\* C29 as claimed: a file leaves modifiedTsFiles only when a tsc run ends
\* that was started with the file already recorded; a file recorded while
\* the run was in flight stays.
C29_Original ==
    [][\A f \in modifiedTsFiles \ modifiedTsFiles' :
          \E k \in Slots :
              /\ occ[k].outcome = "awaiting"
              /\ occ'[k].outcome # "awaiting"
              /\ f \in occ[k].children[Len(occ[k].children)].recorded]_vars

\* the call of type-checker's session.complete handler is under way in slot k
CheckerAt(k) ==
    /\ occ[k].event = "session.complete"
    /\ occ[k].outcome \in {"running", "awaiting"}
    /\ HandlersFor(registry, occ[k].event)[occ[k].idx].fn = "TypeCheckerSessionComplete"

\* that call ends at this step
CheckerEnds(k) ==
    /\ CheckerAt(k)
    /\ Len(occ'[k].ran) = Len(occ[k].ran) + 1
    /\ LastRan(occ'[k]).thrown # "TimeoutError"

MaxWatchEvents == 6

WatchPaths == { <<"a",".","t","e","s","t",".","t","s">>, <<"s","r","c","/","b",".","s","p","e","c",".","j","s","x">>, <<"a",".","t","s">>, <<"a",".","t","e","s","t",".","p","y">> }

BeginWatchEvent(event, payload) ==
    /\ occ[1].event = "none"
    /\ nEvents < MaxWatchEvents
    /\ nEvents' = nEvents + 1
    /\ occ' = [occ EXCEPT ![1] = NewOcc(registry, event, payload)]
    /\ UNCHANGED <<registry, op, stats, changedFiles, sessionStartBranch,
                   active, expect, owner, foreign, lastIndex, modifiedTsFiles,
                   modifiedTestFiles, abandoned, sessionStartTimes, now,
                   notice, loop>>

BeginWatchCreate(s) ==
    /\ s \notin active
    /\ BeginWatchEvent("session.create", [NoPayload EXCEPT !.sid = s])

BeginWatchFileCreate(s, f) ==
    /\ s \in active
    /\ BeginWatchEvent("file.create", [NoPayload EXCEPT !.sid = s, !.filePath = f])

BeginWatchFileEdit(s, f) ==
    /\ s \in active
    /\ BeginWatchEvent("file.edit", [NoPayload EXCEPT !.sid = s, !.filePath = f])

BeginWatchComplete(s) ==
    /\ s \in active
    /\ BeginWatchEvent("session.complete", [NoPayload EXCEPT !.sid = s])

InitWatch == registry = <<"test-watcher">> /\ Start

NextWatch ==
    \/ \E s \in SessionIds : BeginWatchCreate(s)
    \/ \E s \in SessionIds, f \in WatchPaths : BeginWatchFileCreate(s, f)
    \/ \E s \in SessionIds, f \in WatchPaths : BeginWatchFileEdit(s, f)
    \/ \E s \in SessionIds : BeginWatchComplete(s)
    \/ DispatchStep(1)
    \/ Retire(1)

SpecWatch == InitWatch /\ [][NextWatch]_vars

\* s ends with the characters of w
HasSuffix(s, w) ==
    /\ Len(s) >= Len(w)
    /\ SubSeq(s, Len(s) - Len(w) + 1, Len(s)) = w

\* a path of a test file: it ends with .test. or .spec. and one of the
\* extensions ts, tsx, js, jsx
IsTestPath(f) ==
    \E m \in { <<".","t","e","s","t",".">>, <<".","s","p","e","c",".">> }, e \in { <<"t","s">>, <<"t","s","x">>, <<"j","s">>, <<"j","s","x">> } :
        HasSuffix(f, m \o e)

\* the handler fn of the event in flight is called at this step
HandlerCalled(fn) ==
    /\ occ[1].outcome = "running"
    /\ Len(occ'[1].ran) = Len(occ[1].ran) + 1
    /\ LastRan(occ'[1]).fn = fn

\* the members of a sequence
Members(fs) == {fs[k] : k \in 1..Len(fs)}

\* the paths on the "   - path" lines of a report
Reported(lines) ==
    [k \in 1..(Len(lines) - 2) |-> SubSeq(lines[k + 1], 6, Len(lines[k + 1]))]

ConsoleLines(content) ==
    LET ls == SplitLines(content)
    IN  Ascending({n \in 1..Len(ls) :
                     /\ \E k \in 1..Len(CONSOLE_PATTERNS) : Test(CONSOLE_PATTERNS[k].re, ls[n])
                     /\ \A k \in 1..Len(ALLOWED_PATTERNS) : ~Test(ALLOWED_PATTERNS[k].re, ls[n])})

\* C33 as claimed: called with its patterns as they are when the plugin is
\* loaded, containsConsoleLog finds exactly the lines that contain
\* console.log(, console.debug( or console.info( and no allowed pattern, and
\* the handler warns of these lines.
C33_Original ==
    [][(HandlerCalled("ConsoleLogWarning") /\ lastIndex = FreshLastIndex
          /\ occ[1].payload.tool \in {"write", "edit"}) =>
          LET a == occ[1].payload.args
              content == IF a.content # <<>> THEN a.content ELSE a.newString
              r == containsConsoleLog(content, lastIndex)
          IN  /\ r.lines = ConsoleLines(content)
              /\ r.found = (ConsoleLines(content) # <<>>)
              /\ (ArrayIncludes(CONSOLE_EXTENSIONS, ExtOf(a.filePath)) /\ r.found) =>
                    LastRan(occ'[1]).warned
                        = <<ConsoleLogMessage(a.filePath, ConsoleLines(content))>>]_vars

\* the text a write or an edit carries: args.content || args.newString
WrittenText(args) == IF args.content # <<>> THEN args.content ELSE args.newString

\* a write or an edit of a text that matches a secret pattern has been
\* dispatched to a registry with env-protection
SecretWritten ==
    /\ FileBeforeDone
    /\ occ[1].given.tool \in {"write", "edit"}
    /\ \E i \in 1..Len(registry) : registry[i] = "env-protection"
    /\ FirstMatch(secretPatterns, WrittenText(occ[1].given.args)) # 0

\* the file/secret guard, had it been called, would have refused the text
GuardRefusesSecret ==
    SecretWritten =>
        EnvFileGuard(occ[1].given.tool, occ[1].given.args).kind = "throw"

\* C34 as claimed: a write or an edit whose text, in content or in
\* newString, matches a secret pattern is aborted.
C34_Original == SecretWritten => occ[1].outcome = "Abort"

\* a write or an edit whose content matches a secret pattern has been
\* dispatched to a registry with env-protection
SecretContent ==
    /\ FileBeforeDone
    /\ occ[1].given.tool \in {"write", "edit"}
    /\ \E i \in 1..Len(registry) : registry[i] = "env-protection"
    /\ FirstMatch(secretPatterns, occ[1].given.args.content) # 0

\* what the file/secret guard does with such a write when it is called: the
\* path is judged first, and a file of the allow-list is not let off the
\* scan of its content
GuardKeepsScan ==
    SecretContent =>
        EnvFileGuard(occ[1].given.tool, occ[1].given.args) =
            IF occ[1].given.args.filePath # <<>>
               /\ isSensitiveFile(occ[1].given.args.filePath)
            THEN Thrown(WriteDeniedMessage(occ[1].given.args.filePath))
            ELSE Thrown(SecretDetectedMessage)

\* C35 as claimed: a write or an edit whose content matches a secret pattern
\* is aborted also when its file is on the allow-list, for the secret; when
\* its file is sensitive it is aborted for the path, which is judged first.
C35_Original ==
    SecretContent =>
        /\ occ[1].outcome = "Abort"
        /\ occ[1].reason =
             IF occ[1].given.args.filePath # <<>>
                /\ isSensitiveFile(occ[1].given.args.filePath)
             THEN WriteDeniedMessage(occ[1].given.args.filePath)
             ELSE SecretDetectedMessage

\* C36: the tool.execute.before handler of pre-commit-check returns normally
\* whatever the lint and the test command do, also when they cannot be
\* started, so the dispatch is never aborted by it; for a tool other than
\* bash or a command without "git commit" neither handler starts a command
\* or writes anything; the tool.execute.after handler writes "Commit
\* successful" only for a commit whose result has exit code 0.
C36_PreCommit ==
    /\ occ[1].outcome = "Abort" => LastRan(occ[1]).plugin # "pre-commit-check"
    /\ \A i \in 1..Len(occ[1].ran) :
          LET e == occ[1].ran[i]
              p == e.input
          IN  /\ e.fn = "PreCommitBefore" =>
                    /\ e.kind = "ok"
                    /\ e.thrown = ""
              /\ (e.fn \in {"PreCommitBefore", "PreCommitAfter"}
                    /\ ~PreCommitApplies(p.tool, p.args)) =>
                    /\ occ[1].commands = <<>>
                    /\ e.warned = <<>>
                    /\ e.kind = "ok"
              /\ (e.fn = "PreCommitAfter"
                    /\ \E k \in 1..Len(e.warned) : e.warned[k] = "Commit successful") =>
                    /\ PreCommitApplies(p.tool, p.args)
                    /\ p.result.defined
                    /\ p.result.exitCode = 0

\* git commit was about to run, the lint command could not be started and
\* the dispatch proceeded
C36_Witness ==
    /\ occ[1].event = "tool.execute.before"
    /\ occ[1].outcome = "Proceed"
    /\ PreCommitApplies(occ[1].given.tool, occ[1].given.args)
    /\ occ[1].commands = <<[cmd |-> "npm run lint", status |-> "nostart"]>>
    /\ \E i \in 1..Len(occ[1].ran) : occ[1].ran[i].fn = "PreCommitBefore"

\* a commit that failed has been reported to the handlers and no success
\* was written
PreCommitFailedCommit ==
    /\ occ[1].event = "tool.execute.after"
    /\ Finished(occ[1])
    /\ PreCommitApplies(occ[1].given.tool, occ[1].given.args)
    /\ occ[1].given.result.defined
    /\ occ[1].given.result.exitCode # 0
    /\ occ[1].commands = <<>>
=============================================================================
